---- MODULE Spec2Model ----
(***************************************************************************)
(* A model of the FPGA FIR toolkit's numeric core:                         *)
(*   fixed_point.py       float_to_fixed_point, apply_fixed_point_filter,  *)
(*                        apply_fixed_point_filter_8bit_adc                *)
(*   adc_simulation.py    simulate_8bit_adc, simulate_dual_8bit_adc,       *)
(*                        simulate_adc_dac_with_dc_removal                 *)
(*   signal_processing.py generate_iq_signal                               *)
(*   filter_design.py     design_fir_lowpass, apply_fir_filter             *)
(*                                                                         *)
(* The toolkit computes on numpy float64 arrays and np.int32 / np.int64    *)
(* integers.  Every such value is a dyadic number  (+/-) m * 2^e.  The     *)
(* model keeps it exactly, as a record [neg, m, e] whose magnitude m is an *)
(* arbitrary-precision natural (little-endian limbs in base 2^15), and     *)
(* applies the rounding of the type where the code applies it: round to    *)
(* nearest, ties to even, to a 53-bit significand after every float64      *)
(* operation; wrap modulo 2^32 for np.int32 scalar arithmetic.             *)
(* Exponent overflow and subnormal results of float64 are outside the      *)
(* inputs drawn here (all magnitudes lie between 2^-60 and 2^60).          *)
(***************************************************************************)
EXTENDS Integers, Sequences, FiniteSets, TLC

(***************************************************************************)
(* Arbitrary-precision naturals: sequences of limbs, least significant     *)
(* first, no most-significant zero limb; <<>> is 0.                        *)
(***************************************************************************)
Limb == 2^15

LimbBits == CHOOSE k \in 1..30 : 2^k = Limb

\* the number of bits of a limb n: 0 for 0, k for 2^(k-1) <= n < 2^k
NatBits(n) == CHOOSE k \in 0..LimbBits : n < 2^k /\ (k = 0 \/ 2^(k - 1) <= n)

\* the number of trailing zero bits of a limb n > 0
NatTz(n) == CHOOSE k \in 0..(LimbBits - 1) : n % 2^(k + 1) = 2^k

\* r, with v evaluated first.  TLC evaluates the argument of an operator
\* where the operator first uses it; an operator that names its arguments
\* first has them evaluated on entry, which keeps the evaluation shallow.
After(v, r) == <<v, r>>[2]

\* limb i of a, 0 beyond its length
At(a, i) == IF 1 <= i /\ i <= Len(a) THEN a[i] ELSE 0

\* the largest element of a non-empty set of integers
MaxOf(S) == CHOOSE i \in S : \A j \in S : j <= i

\* a without its most-significant zero limbs
BNorm(a) ==
    LET nz == {i \in 1..Len(a) : a[i] # 0}
    IN  IF nz = {} THEN <<>> ELSE SubSeq(a, 1, MaxOf(nz))

\* a natural number below 2^31 as limbs
BFromNat(n) == BNorm(<<n % Limb, (n \div Limb) % Limb, n \div (Limb * Limb)>>)

\* a + b.  s holds the sums limb by limb; a carry enters limb i when a lower
\* limb overflows and every limb between them is full.
BAdd(a, b) == After(<<a, b>>,
    LET n  == IF Len(a) > Len(b) THEN Len(a) ELSE Len(b)
        s  == [i \in 1..n |-> At(a, i) + At(b, i)] \o <<>>
        cy == [i \in 1..(n + 1) |->
                 IF \E j \in 1..(i - 1) :
                       s[j] >= Limb /\ \A k \in (j + 1)..(i - 1) : s[k] = Limb - 1
                 THEN 1 ELSE 0] \o <<>>
    IN  <<s, cy, BNorm([i \in 1..(n + 1) |-> (At(s, i) + cy[i]) % Limb])>>[3])

\* a - b for a >= b.  d holds the differences limb by limb; a borrow enters
\* limb i when a lower limb is negative and every limb between them is zero.
BSub(a, b) == After(<<a, b>>,
    LET d  == [i \in 1..Len(a) |-> a[i] - At(b, i)] \o <<>>
        bw == [i \in 1..Len(a) |->
                 IF \E j \in 1..(i - 1) :
                       d[j] < 0 /\ \A k \in (j + 1)..(i - 1) : d[k] = 0
                 THEN 1 ELSE 0] \o <<>>
    IN  <<d, bw, BNorm([i \in 1..Len(a) |-> (d[i] - bw[i]) % Limb])>>[3])

\* -1, 0, 1 as a < b, a = b, a > b
BCmp(a, b) == After(<<a, b>>,
    IF Len(a) # Len(b) THEN (IF Len(a) < Len(b) THEN -1 ELSE 1)
    ELSE LET df == {i \in 1..Len(a) : a[i] # b[i]}
         IN  IF df = {} THEN 0
             ELSE IF a[MaxOf(df)] < b[MaxOf(df)] THEN -1 ELSE 1)

\* a * d for one limb d: the low halves of the limb products plus their
\* high halves one limb up
BMulS(a, d) == After(<<a, d>>,
    LET lo == [i \in 1..Len(a) |-> (a[i] * d) % Limb] \o <<>>
        hi == <<0>> \o [i \in 1..Len(a) |-> (a[i] * d) \div Limb]
    IN  <<lo, hi, BAdd(lo, hi)>>[3])

\* a * b: a times the lowest limb of b, plus a times the rest one limb up;
\* the rest is computed first
RECURSIVE BMul(_, _)
BMul(a, b) ==
    IF a = <<>> \/ b = <<>> THEN <<>>
    ELSE LET rest == BMul(a, Tail(b))
         IN  <<rest, BAdd(<<0>> \o rest, BMulS(a, Head(b)))>>[2]

Zeros(n) == [i \in 1..n |-> 0]

\* a * 2^k
BShl(a, k) == After(<<a, k>>,
    LET s == k % LimbBits
    IN  BNorm(Zeros(k \div LimbBits) \o
              [i \in 1..(Len(a) + 1) |->
                  (At(a, i) % 2^(LimbBits - s)) * 2^s
                  + At(a, i - 1) \div 2^(LimbBits - s)]))

\* floor(a / 2^k)
BShr(a, k) == After(<<a, k>>,
    LET n == k \div LimbBits
        s == k % LimbBits
    IN  IF Len(a) <= n THEN <<>>
        ELSE BNorm([i \in 1..(Len(a) - n) |->
                      a[n + i] \div 2^s + (At(a, n + i + 1) % 2^s) * 2^(LimbBits - s)]))

\* a mod 2^k
BLow(a, k) == After(<<a, k>>,
    LET n == k \div LimbBits
    IN  IF Len(a) <= n THEN a
        ELSE BNorm(SubSeq(a, 1, n) \o <<a[n + 1] % (2^(k % LimbBits))>>))

BBits(a) == IF a = <<>> THEN 0 ELSE LimbBits * (Len(a) - 1) + NatBits(a[Len(a)])

\* the number of trailing zero bits of a > 0
BTz(a) ==
    LET i == CHOOSE i \in 1..Len(a) : a[i] # 0 /\ \A j \in 1..(i - 1) : a[j] = 0
    IN  LimbBits * (i - 1) + NatTz(a[i])

BOdd(a) == a # <<>> /\ a[1] % 2 = 1

\* Long division of a by b > 0, one limb of the quotient at a step, b scaled
\* to a full top limb (b[Len(b)] >= Limb / 2): the trial digit, taken from the
\* two top limbs of the running remainder, is then at most 2 too large.
BDivTrial(b, cur) ==
    LET est == (At(cur, Len(b) + 1) * Limb + At(cur, Len(b))) \div b[Len(b)]
    IN  IF est < Limb THEN est ELSE Limb - 1

RECURSIVE BDivFix(_, _, _)
BDivFix(b, cur, t) ==
    IF BCmp(BMulS(b, t), cur) > 0 THEN BDivFix(b, cur, t - 1) ELSE t

\* the next limb of the quotient: how many times b goes into cur
BDivDigit(b, cur) ==
    IF BCmp(cur, b) < 0 THEN 0 ELSE BDivFix(b, cur, BDivTrial(b, cur))

\* limbs i..1 of a still to bring down, r the running remainder (r < b), q
\* the quotient limbs found so far
RECURSIVE BDivLimbs(_, _, _, _, _)
BDivLimbs(a, b, i, r, q) ==
    IF i = 0 THEN [q |-> BNorm(q), r |-> r]
    ELSE LET cur == BNorm(<<a[i]>> \o r)
             t   == BDivDigit(b, cur)
             bt  == BMulS(b, t)
             r2  == BSub(cur, bt)
         IN  <<cur, t, bt, r2, BDivLimbs(a, b, i - 1, r2, <<t>> \o q)>>[5]

\* the top Len(b) - 1 limbs of a are below b and start as the remainder
BDivScaled(a, b) ==
    LET i == IF Len(a) < Len(b) THEN 0 ELSE Len(a) - Len(b) + 1
    IN  BDivLimbs(a, b, i, SubSeq(a, i + 1, Len(a)), <<>>)

\* the quotient q of a by b > 0, and r = 0 exactly when b divides a
BDivMod(a, b) ==
    BDivScaled(BShl(a, LimbBits - NatBits(b[Len(b)])),
               BShl(b, LimbBits - NatBits(b[Len(b)])))

(***************************************************************************)
(* Dyadic numbers (+/-) m * 2^e: the values of float64, np.int32 and       *)
(* np.int64.  Canonical form: m odd, or m = 0 with e = 0 and neg = FALSE,  *)
(* so that equal numbers are equal records.                                *)
(***************************************************************************)
DZero == [neg |-> FALSE, m |-> <<>>, e |-> 0]

DMake(neg, n, e) == After(n,
    IF n = <<>> THEN DZero
    ELSE [neg |-> neg, m |-> BShr(n, BTz(n)), e |-> e + BTz(n)])

DInt(k) == DMake(k < 0, BFromNat(IF k < 0 THEN -k ELSE k), 0)

DPow2(k) == [neg |-> FALSE, m |-> <<1>>, e |-> k]

DIsZero(x) == x.m = <<>>

DNeg(x) == After(x, IF DIsZero(x) THEN x ELSE [x EXCEPT !.neg = ~x.neg])

DAbs(x) == After(x, [x EXCEPT !.neg = FALSE])

\* x * 2^k
DScale(x, k) == After(x, IF DIsZero(x) THEN x ELSE [x EXCEPT !.e = @ + k])

\* the sum of (+/-) X * 2^e and (+/-) Y * 2^e
DAddMag(xneg, X, yneg, Y, e) ==
    IF xneg = yneg THEN DMake(xneg, BAdd(X, Y), e)
    ELSE IF BCmp(X, Y) > 0 THEN DMake(xneg, BSub(X, Y), e)
    ELSE DMake(yneg, BSub(Y, X), e)

\* x + y with both magnitudes brought to the exponent e
DAddAt(x, y, e) ==
    DAddMag(x.neg, BShl(x.m, x.e - e), y.neg, BShl(y.m, y.e - e), e)

DAdd(x, y) == After(<<x, y>>,
    IF DIsZero(x) THEN y
    ELSE IF DIsZero(y) THEN x
    ELSE DAddAt(x, y, IF x.e < y.e THEN x.e ELSE y.e))

DSub(x, y) == DAdd(x, DNeg(y))

DMul(x, y) == After(<<x, y>>,
    IF DIsZero(x) \/ DIsZero(y) THEN DZero
    ELSE [neg |-> x.neg # y.neg, m |-> BMul(x.m, y.m), e |-> x.e + y.e])

DSign(x) == IF DIsZero(x) THEN 0 ELSE IF x.neg THEN -1 ELSE 1

\* -1, 0, 1 as x < y, x = y, x > y
DCmp(x, y) == After(<<x, y>>,
    IF x.neg # y.neg THEN (IF x.neg THEN -1 ELSE 1)
    ELSE DSign(DSub(x, y)))

DLt(x, y) == DCmp(x, y) < 0

DLe(x, y) == DCmp(x, y) <= 0

DMaximum(x, y) == IF DLt(x, y) THEN y ELSE x

DMinimum(x, y) == IF DLt(y, x) THEN y ELSE x

DIsInt(x) == x.e >= 0

\* the integer part of |x|
DWhole(x) == IF x.e >= 0 THEN BShl(x.m, x.e) ELSE BShr(x.m, -x.e)

\* floor(x): np.floor, and the arithmetic right shift of integers
DFloor(x) == After(x,
    IF x.e >= 0 THEN x
    ELSE DMake(x.neg, IF x.neg THEN BAdd(DWhole(x), <<1>>) ELSE DWhole(x), 0))

\* truncation toward zero: the C cast float -> integer
DTrunc(x) == After(x, IF x.e >= 0 THEN x ELSE DMake(x.neg, DWhole(x), 0))

\* -1, 0, 1 as the low k bits of m are below, equal to, above one half
\* (2^(k-1)), for k >= 1
BHalfCmp(m, k) == BCmp(BLow(m, k), BShl(<<1>>, k - 1))

\* q, the bits of a magnitude above the rounding position, rounded to
\* nearest, ties to even; c compares the bits dropped with one half
BRound(q, c) == After(<<q, c>>,
    IF c > 0 \/ (c = 0 /\ BOdd(q)) THEN BAdd(q, <<1>>) ELSE q)

\* the nearest integer, ties to the even one: np.round, np.rint
DRint(x) == After(x,
    IF x.e >= 0 THEN x
    ELSE DMake(x.neg, BRound(BShr(x.m, -x.e), BHalfCmp(x.m, -x.e)), 0))

\* the value of a small integer (|x| < 2^30) as a number of the model
BToNat(a) == At(a, 1) + Limb * At(a, 2) + (Limb * Limb) * At(a, 3)

DToInt(x) == IF x.neg THEN -BToNat(DWhole(x)) ELSE BToNat(DWhole(x))

\* x mod 2^w for the integer (+/-) q, given low = q mod 2^w
BResidue(neg, low, w) == After(low,
    IF neg /\ low # <<>> THEN BSub(BShl(<<1>>, w), low) ELSE low)

\* the w-bit two's complement value with the bits u: u - 2^w when the top
\* bit of u is set
DSigned(u, w) == After(u,
    IF BBits(u) = w THEN DMake(TRUE, BSub(BShl(<<1>>, w), u), 0)
    ELSE DMake(FALSE, u, 0))

\* integer x as a w-bit two's complement value (x mod 2^w, in [-2^(w-1), 2^(w-1)))
DWrap(x, w) == After(x, DSigned(BResidue(x.neg, BLow(DWhole(x), w), w), w))

(***************************************************************************)
(* float64: every operation returns the exact result rounded to nearest,   *)
(* ties to even, to a significand of FloatBits bits.                       *)
(***************************************************************************)
FloatBits == 53

\* x with the low sh >= 1 bits of its magnitude rounded away
FlAt(x, sh) ==
    DMake(x.neg, BRound(BShr(x.m, sh), BHalfCmp(x.m, sh)), x.e + sh)

Fl(x) ==
    After(x, IF BBits(x.m) <= FloatBits THEN x
             ELSE FlAt(x, BBits(x.m) - FloatBits))

IsFloat(x) == BBits(x.m) <= FloatBits

FAdd(x, y) == Fl(DAdd(x, y))

FSub(x, y) == Fl(DSub(x, y))

FMul(x, y) == Fl(DMul(x, y))

\* twice the quotient, plus one when the remainder is not zero
BSticky(dm) == After(dm,
    BAdd(BShl(dm.q, 1), IF dm.r = <<>> THEN <<>> ELSE <<1>>))

\* x / y from the quotient of x.m * 2^k by y.m
FDivAt(x, y, k) ==
    LET dm == BDivMod(BShl(x.m, k), y.m)
    IN  <<dm, Fl(DMake(x.neg # y.neg, BSticky(dm), x.e - y.e - k - 1))>>[2]

\* x / y for y # 0: the quotient to FloatBits + 3 bits or more, with a sticky
\* last bit standing for a nonzero remainder, then rounded
FDiv(x, y) == After(<<x, y>>,
    CASE ~DIsZero(y) ->
        IF DIsZero(x) THEN DZero
        ELSE FDivAt(x, y, FloatBits + 3 + BBits(y.m) - BBits(x.m)))

\* the float64 nearest to the decimal literal p / q written in the source
Lit(p, q) == FDiv(DInt(p), DInt(q))

(***************************************************************************)
(* numpy helpers shared by the three functions.                            *)
(***************************************************************************)
\* np.clip(x, lo, hi) = minimum(maximum(x, lo), hi)
Clip(x, lo, hi) == DMinimum(DMaximum(x, lo), hi)

Int32Bits == 32

Int32Min == DNeg(DPow2(Int32Bits - 1))

Int32Max == DSub(DPow2(Int32Bits - 1), DInt(1))

InInt32(v) == DLe(Int32Min, v) /\ DLe(v, Int32Max)

\* What the C cast of an out-of-range double to a 32-bit integer (undefined
\* behaviour in C) gives on a build: the x86 "integer indefinite" value
\* -2^31; the bound of the range (AArch64); the low 32 bits of the 64-bit
\* conversion.
Builds == {"indefinite", "saturate", "wrap"}

\* the cast of the integer-valued v on build b
CastInt32(v, b) == After(v,
    IF InInt32(v) THEN v
    ELSE IF b = "indefinite" THEN Int32Min
    ELSE IF b = "saturate" THEN (IF v.neg THEN Int32Min ELSE Int32Max)
    ELSE DWrap(v, Int32Bits))

\* ndarray.astype(np.int32) of a float64 value, on build b
AsInt32(x, b) == CastInt32(DTrunc(x), b)

\* an array: a function on 1..n as a tuple, each element computed once
Array(f) == f \o <<>>

\* the largest element of a non-empty sequence: np.max
RECURSIVE SeqMax(_)
SeqMax(s) ==
    IF Len(s) = 1 THEN s[1] ELSE DMaximum(s[1], SeqMax(Tail(s)))

\* np.sum of float64 (fewer than 8 elements: one running sum from 0.0)
RECURSIVE SeqSumAt(_, _)
SeqSumAt(s, i) == IF i = 0 THEN DZero ELSE FAdd(SeqSumAt(s, i - 1), s[i])

\* np.mean of a non-empty float64 sequence
SeqMean(s) == FDiv(SeqSumAt(s, Len(s)), DInt(Len(s)))

\* np.var, from the mean: the mean of the squared deviations
SeqVarAbout(s, mean) == After(mean,
    SeqMean(Array([i \in 1..Len(s) |->
                      FMul(FSub(s[i], mean), FSub(s[i], mean))])))

\* np.var of a non-empty float64 sequence
SeqVar(s) == SeqVarAbout(s, SeqMean(s))

\* 10 * np.log10(signal_power / noise_power) if noise_power > 0 else
\* float('inf'): the sentinel, or the power ratio the logarithm is taken of
SnrDb(signal_power, noise_power) == After(<<signal_power, noise_power>>,
    IF DLt(DZero, noise_power)
    THEN [value |-> "10*log10", ratio |-> FDiv(signal_power, noise_power)]
    ELSE [value |-> "inf", ratio |-> DZero])

(***************************************************************************)
(* fixed_point.py: float_to_fixed_point(coeffs, int_bits, frac_bits)       *)
(***************************************************************************)
ScaleFactor(frac_bits) == DPow2(frac_bits)

MaxVal(total_bits) == DSub(DPow2(total_bits - 1), DInt(1))

MinVal(total_bits) == DNeg(DPow2(total_bits - 1))

\* coeffs * scale_factor: float64 times a Python int
ScaledCoeff(c, frac_bits) == FMul(c, Fl(ScaleFactor(frac_bits)))

ScaledCoeffs(coeffs, frac_bits) ==
    Array([i \in 1..Len(coeffs) |-> ScaledCoeff(coeffs[i], frac_bits)])

\* (scaled_coeffs > max_val) | (scaled_coeffs < min_val)
IsOverflow(sc, total_bits) ==
    DLt(Fl(MaxVal(total_bits)), sc) \/ DLt(sc, Fl(MinVal(total_bits)))

\* np.where(...)[0], as the set of the indices
OverflowIndices(scaled, total_bits) ==
    {i \in 1..Len(scaled) : IsOverflow(scaled[i], total_bits)}

\* the scaled coefficient passed on without the clip to the format
SaturatedCoeffUnclipped(sc, total_bits) == sc

\* np.clip(scaled_coeffs, min_val, max_val)
SaturatedCoeff(sc, total_bits) ==
    Clip(sc, Fl(MinVal(total_bits)), Fl(MaxVal(total_bits)))

\* np.round(saturated_coeffs).astype(np.int32)
FixedCoeff(sat, b) == AsInt32(DRint(sat), b)

FixedPointCoeffs(scaled, total_bits, b) ==
    Array([i \in 1..Len(scaled) |->
              FixedCoeff(SaturatedCoeff(scaled[i], total_bits), b)])

\* fixed_point_coeffs.astype(np.float64) / scale_factor
Reconstructed(fx, frac_bits) == FDiv(Fl(fx), Fl(ScaleFactor(frac_bits)))

ReconstructedCoeffs(fixed, frac_bits) ==
    Array([i \in 1..Len(fixed) |-> Reconstructed(fixed[i], frac_bits)])

\* np.abs(coeffs - reconstructed)
QuantizationError(coeffs, reconstructed) ==
    Array([i \in 1..Len(coeffs) |-> DAbs(FSub(coeffs[i], reconstructed[i]))])

\* the report, from the arrays of the call
ConversionInfo(coeffs, int_bits, frac_bits, overflow_indices, reconstructed, error) ==
    [int_bits |-> int_bits,
     frac_bits |-> frac_bits,
     total_bits |-> int_bits + frac_bits,
     scale_factor |-> ScaleFactor(frac_bits),
     overflow_count |-> Cardinality(overflow_indices),
     overflow_indices |-> overflow_indices,
     max_quantization_error |-> SeqMax(error),
     mean_quantization_error |-> SeqMean(error),
     \* 'original_coeffs': coeffs is the caller's array itself, not a copy;
     \* the field reads as that array reads
     original_coeffs |-> coeffs,
     reconstructed_coeffs |-> reconstructed]

\* lines 72-89, from the reconstructed coefficients on
ConvertReport(coeffs, int_bits, frac_bits, overflow_indices, fixed, reconstructed) == After(reconstructed,
    [raised |-> "no",
     fixed_point_coeffs |-> fixed,
     conversion_info |->
        ConversionInfo(coeffs, int_bits, frac_bits, overflow_indices, reconstructed,
                       QuantizationError(coeffs, reconstructed))])

\* lines 71-89, from the rounded coefficients on
ConvertFixed(coeffs, int_bits, frac_bits, overflow_indices, fixed) == After(<<overflow_indices, fixed>>,
    ConvertReport(coeffs, int_bits, frac_bits, overflow_indices, fixed,
                  ReconstructedCoeffs(fixed, frac_bits)))

\* lines 62-89, from the scaled coefficients on
ConvertScaled(coeffs, int_bits, frac_bits, b, scaled) == After(scaled,
    ConvertFixed(coeffs, int_bits, frac_bits,
                 OverflowIndices(scaled, int_bits + frac_bits),
                 FixedPointCoeffs(scaled, int_bits + frac_bits, b)))

\* The call.  np.max of an empty error array raises ValueError while the
\* report is built; nothing is returned then.
FloatToFixedPoint(coeffs, int_bits, frac_bits, b) ==
    IF Len(coeffs) = 0
    THEN [raised |-> "ValueError"]
    ELSE ConvertScaled(coeffs, int_bits, frac_bits, b,
                       ScaledCoeffs(coeffs, frac_bits))

(***************************************************************************)
(* fixed_point.py: apply_fixed_point_filter(signal, fixed_point_coeffs,    *)
(*   coeff_frac_bits, accumulator_bits, output_shift, input_scaling).      *)
(* fixed_point_coeffs is the np.int32 array float_to_fixed_point returns.  *)
(* Sequences are 1-based here: sample n of the code is element n + 1.      *)
(***************************************************************************)
InputBits == 15

\* int(input_scaling * (2**15))
InputScale(input_scaling) == DTrunc(FMul(input_scaling, Fl(DPow2(InputBits))))

\* (signal * input_scale).astype(np.int32), one element
ScaledSample(x, input_scale, b) == AsInt32(FMul(x, Fl(input_scale)), b)

ScaledInput(signal, input_scale, b) == After(input_scale,
    Array([i \in 1..Len(signal) |-> ScaledSample(signal[i], input_scale, b)]))

AccumulatorMax(accumulator_bits) == DSub(DPow2(accumulator_bits - 1), DInt(1))

AccumulatorMin(accumulator_bits) == DNeg(DPow2(accumulator_bits - 1))

\* scaled_input[n - k] * fixed_point_coeffs[k]: np.int32 times np.int32 is
\* np.int32, the product wrapped to 32 bits
TapProduct(x, c) == DWrap(DMul(x, c), Int32Bits)

Int64Bits == 64

\* the inner loop over k (taps 1..k done): accumulator = np.int64(0), then
\* accumulator += product for every tap with n - k >= 0
\* the tap loop reading one sample ahead, sample_idx = n - k + 1
RECURSIVE AccumulateAhead(_, _, _, _)
AccumulateAhead(si, cf, n, k) ==
    IF k = 0 THEN DZero
    ELSE IF n - k + 1 >= 0 /\ n - k + 1 < Len(si)
         THEN DWrap(DAdd(AccumulateAhead(si, cf, n, k - 1),
                         TapProduct(si[n - k + 2], cf[k])), Int64Bits)
         ELSE AccumulateAhead(si, cf, n, k - 1)

\* the tap loop reading one sample late, sample_idx = n - k - 1
RECURSIVE AccumulateLate(_, _, _, _)
AccumulateLate(si, cf, n, k) ==
    IF k = 0 THEN DZero
    ELSE IF n - k - 1 >= 0
         THEN DWrap(DAdd(AccumulateLate(si, cf, n, k - 1),
                         TapProduct(si[n - k], cf[k])), Int64Bits)
         ELSE AccumulateLate(si, cf, n, k - 1)

RECURSIVE Accumulate(_, _, _, _)
Accumulate(si, cf, n, k) ==
    IF k = 0 THEN DZero
    ELSE IF n - k >= 0
    THEN DWrap(DAdd(Accumulate(si, cf, n, k - 1),
                    TapProduct(si[n - k + 1], cf[k])), Int64Bits)
    ELSE Accumulate(si, cf, n, k - 1)

IsAccumulatorOverflow(acc, accumulator_bits) ==
    \/ DLt(AccumulatorMax(accumulator_bits), acc)
    \/ DLt(acc, AccumulatorMin(accumulator_bits))

\* the accumulator after the overflow check of lines 160-162
SaturatedAccumulator(acc, accumulator_bits) ==
    IF IsAccumulatorOverflow(acc, accumulator_bits)
    THEN Clip(acc, AccumulatorMin(accumulator_bits), AccumulatorMax(accumulator_bits))
    ELSE acc

\* the shift as a division that rounds toward zero
OutputSampleTruncated(acc, output_shift) == DTrunc(DScale(acc, -output_shift))

\* accumulator >> output_shift on np.int64
OutputSample(acc, output_shift) == DFloor(DScale(acc, -output_shift))

\* output_sample / (2**15)
FilteredSample(acc, accumulator_bits, output_shift) ==
    FDiv(Fl(OutputSample(SaturatedAccumulator(acc, accumulator_bits),
                         output_shift)),
         Fl(DPow2(InputBits)))

\* one pass of the outer loop: prev the counter and the output so far, acc
\* the accumulator of this sample
FilterStep(prev, acc, accumulator_bits, output_shift) == After(<<prev, acc>>,
    [overflow_count |->
        IF IsAccumulatorOverflow(acc, accumulator_bits)
        THEN prev.overflow_count + 1 ELSE prev.overflow_count,
     filtered_signal |->
        Append(prev.filtered_signal,
               FilteredSample(acc, accumulator_bits, output_shift))])

\* the outer loop, samples 1..n done: the overflow counter and the output
RECURSIVE FilterLoop(_, _, _, _, _)
FilterLoop(si, cf, accumulator_bits, output_shift, n) ==
    IF n = 0 THEN [overflow_count |-> 0, filtered_signal |-> <<>>]
    ELSE FilterStep(FilterLoop(si, cf, accumulator_bits, output_shift, n - 1),
                    Accumulate(si, cf, n, Len(cf)),
                    accumulator_bits, output_shift)

\* lines 168-178, from the loop's result
FilterReport(signal, accumulator_bits, output_shift, input_scaling, loop) == After(loop,
    [raised |-> "no",
     filtered_signal |-> loop.filtered_signal,
     simulation_info |->
        [input_scaling |-> input_scaling,
         accumulator_bits |-> accumulator_bits,
         output_shift |-> output_shift,
         overflow_count |-> loop.overflow_count,
         overflow_rate |-> FDiv(DInt(loop.overflow_count), DInt(Len(signal))),
         \* np.std(filtered_signal) > 0 exactly when the variance is; the
         \* value of the logarithm is not computed
         effective_snr_db |->
            IF DLt(DZero, SeqVar(loop.filtered_signal))
            THEN "-20*log10" ELSE "inf"]])

\* lines 138-178, from the scaled input on
FilterScaled(signal, cf, accumulator_bits, output_shift, input_scaling, si) ==
    After(si,
          FilterReport(signal, accumulator_bits, output_shift, input_scaling,
                       FilterLoop(si, cf, accumulator_bits, output_shift,
                                  Len(signal))))

\* The call.  overflow_count / N with N = 0 raises ZeroDivisionError while
\* the report is built.
ApplyFixedPointFilter(signal, cf, accumulator_bits, output_shift, input_scaling, b) ==
    IF Len(signal) = 0
    THEN [raised |-> "ZeroDivisionError"]
    ELSE FilterScaled(signal, cf, accumulator_bits, output_shift, input_scaling,
                      ScaledInput(signal, InputScale(input_scaling), b))

(***************************************************************************)
(* adc_simulation.py: simulate_8bit_adc(signal, adc_range, dc_bias, bits)  *)
(* with add_noise = False.                                                 *)
(***************************************************************************)
NumLevels(bits) == DPow2(bits)

\* signal + dc_bias
BiasedSample(x, dc_bias) == FAdd(x, dc_bias)

\* np.clip(biased_signal, adc_min, adc_max)
ClippedSample(biased, adc_min, adc_max) == Clip(biased, adc_min, adc_max)

\* (biased_signal < adc_min) | (biased_signal > adc_max)
IsClipped(biased, adc_min, adc_max) ==
    DLt(biased, adc_min) \/ DLt(adc_max, biased)

\* the clipping mask taken on the signal before the bias is added
ClippedSamplesUnbiased(signal, adc_min, adc_max, dc_bias) ==
    Cardinality({i \in 1..Len(signal) : IsClipped(signal[i], adc_min, adc_max)})

\* np.sum of the clipping mask
ClippedSamples(signal, adc_min, adc_max, dc_bias) ==
    Cardinality({i \in 1..Len(signal) :
                    IsClipped(BiasedSample(signal[i], dc_bias), adc_min, adc_max)})

\* (adc_max - adc_min) / num_levels
LsbVoltage(adc_min, adc_max, bits) ==
    FDiv(FSub(adc_max, adc_min), Fl(NumLevels(bits)))

\* (clipped_signal - adc_min) / (adc_max - adc_min)
Normalized(clipped, adc_min, adc_max) == After(clipped,
    FDiv(FSub(clipped, adc_min), FSub(adc_max, adc_min)))

\* the level without the np.clip to [0, num_levels - 1]
QuantizedLevelUnclamped(normalized, bits) == After(normalized,
    DFloor(FMul(normalized, Fl(NumLevels(bits)))))

\* the level taken with np.round in place of np.floor
QuantizedLevelRounded(normalized, bits) == After(normalized,
    Clip(DRint(FMul(normalized, Fl(NumLevels(bits)))),
         DZero, DSub(NumLevels(bits), DInt(1))))

\* np.floor(normalized * num_levels), then np.clip(., 0, num_levels - 1)
QuantizedLevel(normalized, bits) == After(normalized,
    Clip(DFloor(FMul(normalized, Fl(NumLevels(bits)))),
         DZero, DSub(NumLevels(bits), DInt(1))))

QuantizedLevels(signal, adc_min, adc_max, dc_bias, bits) ==
    Array([i \in 1..Len(signal) |->
              QuantizedLevel(
                  Normalized(ClippedSample(BiasedSample(signal[i], dc_bias),
                                           adc_min, adc_max),
                             adc_min, adc_max),
                  bits)])

\* (quantized_levels / num_levels) * (adc_max - adc_min) + adc_min
QuantizedVoltage(level, adc_min, adc_max, bits) ==
    FAdd(FMul(FDiv(level, Fl(NumLevels(bits))), FSub(adc_max, adc_min)),
         adc_min)

\* line 80: quantized_voltage += noise, one element; noise is <<>> when
\* add_noise is off
NoisyVoltage(v, noise, i) == IF noise = <<>> THEN v ELSE FAdd(v, noise[i])

\* quantized_voltage - dc_bias
DigitizedSignal(levels, adc_min, adc_max, dc_bias, bits, noise) ==
    Array([i \in 1..Len(levels) |->
              FSub(NoisyVoltage(QuantizedVoltage(levels[i], adc_min, adc_max, bits),
                                noise, i),
                   dc_bias)])

\* signal - digitized_signal
AdcQuantizationError(signal, digitized) ==
    Array([i \in 1..Len(signal) |-> FSub(signal[i], digitized[i])])

\* lines 86-90: snr_db of the signal against its quantization error
AdcSnrDb(signal, digitized) == After(digitized,
    SnrDb(SeqVar(signal), SeqVar(AdcQuantizationError(signal, digitized))))

\* np.min
RECURSIVE SeqMin(_)
SeqMin(s) ==
    IF Len(s) = 1 THEN s[1] ELSE DMinimum(s[1], SeqMin(Tail(s)))

\* utilized_levels = np.max(quantized_levels) - np.min(quantized_levels) + 1
UtilizedLevels(levels) == FAdd(FSub(SeqMax(levels), SeqMin(levels)), DInt(1))

\* the report, from the number of clipped samples, the levels and the output
AdcInfo(signal, adc_min, adc_max, bits, clipped_samples, levels, digitized) == After(clipped_samples,
    [bits |-> bits,
     utilized_levels |-> UtilizedLevels(levels),
     utilization |-> FDiv(UtilizedLevels(levels), Fl(NumLevels(bits))),
     snr_db |-> AdcSnrDb(signal, digitized),
     lsb_voltage |-> LsbVoltage(adc_min, adc_max, bits),
     num_levels |-> NumLevels(bits),
     clipped_samples |-> clipped_samples,
     clipping_rate |-> FDiv(DInt(clipped_samples), DInt(Len(signal)))])

\* lines 86-114, from the quantized levels and the output on
AdcReport(signal, adc_min, adc_max, dc_bias, bits, levels, digitized) == After(digitized,
    [raised |-> "no",
     digitized_signal |-> digitized,
     quantized_levels |-> levels,
     adc_info |-> AdcInfo(signal, adc_min, adc_max, bits,
                          ClippedSamples(signal, adc_min, adc_max, dc_bias),
                          levels, digitized)])

\* lines 76-114, from the quantized levels and the noise on
AdcOutput(signal, adc_min, adc_max, dc_bias, bits, levels, noise) == After(<<levels, noise>>,
    AdcReport(signal, adc_min, adc_max, dc_bias, bits, levels,
              DigitizedSignal(levels, adc_min, adc_max, dc_bias, bits, noise)))

\* numpy's global generator is a fixed stream of draws from the seed on, and
\* its state rng is the number of draws taken.  Draw k of the standard normal
\* stream stands as (+/-)(2k + 1)/8: no two draws of the stream are equal.
GaussianDraw(k) == DMake(k % 2 = 1, BFromNat(2 * k + 1), -3)

\* the noise added whether or not add_noise is set
AdcNoiseAlways(n, add_noise, noise_std, rng) ==
    [i \in 1..n |-> FMul(noise_std, GaussianDraw(rng + i))]

\* lines 79-80: np.random.normal(0, noise_std, n) if add_noise, drawn from
\* the generator in state rng
AdcNoise(n, add_noise, noise_std, rng) ==
    IF add_noise
    THEN [i \in 1..n |-> FMul(noise_std, GaussianDraw(rng + i))]
    ELSE <<>>

\* The call, with the generator in state rng.  np.max of the empty level
\* array raises ValueError while the utilization is computed.
Simulate8BitAdcNoise(signal, adc_min, adc_max, dc_bias, bits, add_noise, noise_std, rng) ==
    IF Len(signal) = 0
    THEN [raised |-> "ValueError"]
    ELSE AdcOutput(signal, adc_min, adc_max, dc_bias, bits,
                   QuantizedLevels(signal, adc_min, adc_max, dc_bias, bits),
                   AdcNoise(Len(signal), add_noise, noise_std, rng))

\* the call with add_noise left at its default, False
Simulate8BitAdc(signal, adc_min, adc_max, dc_bias, bits) ==
    Simulate8BitAdcNoise(signal, adc_min, adc_max, dc_bias, bits,
                         FALSE, Lit(1, 1000), 0)

(***************************************************************************)
(* simulate_dual_8bit_adc (adc_simulation.py), with mismatch_phase = 0.0,  *)
(* for which np.cos gives 1.0 and np.sin gives 0.0.                        *)
(***************************************************************************)
\* i_signal * (1 + mismatch_gain) + mismatch_offset
IModified(i_signal, mismatch_gain, mismatch_offset) ==
    Array([k \in 1..Len(i_signal) |->
              FAdd(FMul(i_signal[k], FAdd(DInt(1), mismatch_gain)),
                   mismatch_offset)])

\* the Q channel fed from the I channel: np.cos and np.sin exchanged
QModifiedCrossed(q_signal, i_signal) ==
    Array([k \in 1..Len(q_signal) |->
              FAdd(FMul(q_signal[k], DZero), FMul(i_signal[k], DInt(1)))])

\* q_signal * np.cos(mismatch_phase) + i_signal * np.sin(mismatch_phase)
QModified(q_signal, i_signal) ==
    Array([k \in 1..Len(q_signal) |->
              FAdd(FMul(q_signal[k], DInt(1)), FMul(i_signal[k], DZero))])

\* lines 169-199, from the results of the two single-channel calls, the I
\* channel's first: an error of either call ends the dual call
DualReport(channels) == After(channels,
    IF channels[1].raised # "no" THEN [raised |-> channels[1].raised]
    ELSE IF channels[2].raised # "no" THEN [raised |-> channels[2].raised]
    ELSE [raised |-> "no",
          i_digital |-> channels[1].digitized_signal,
          q_digital |-> channels[2].digitized_signal,
          i_channel |-> channels[1].adc_info,
          q_channel |-> channels[2].adc_info])

SimulateDual8BitAdc(i_signal, q_signal, adc_min, adc_max, dc_bias, bits, mismatch_gain, mismatch_offset) ==
    DualReport(Array([channel \in 1..2 |->
                   Simulate8BitAdc(IF channel = 1
                                   THEN IModified(i_signal, mismatch_gain, mismatch_offset)
                                   ELSE QModified(q_signal, i_signal),
                                   adc_min, adc_max, dc_bias, bits)]))

(***************************************************************************)
(* apply_fixed_point_filter_8bit_adc (fixed_point.py): its own ADC stage,  *)
(* then a FIR stage aligned as np.convolve(..., 'same').  The accumulator  *)
(* starts as the Python integer 0 and takes np.int32 products; the partial *)
(* sums of the inputs drawn stay within 32 bits, where every numpy version *)
(* adds them exactly.                                                      *)
(***************************************************************************)
\* np.round(normalized * (adc_levels - 1))
RoundedLevel(normalized, adc_bits) == After(normalized,
    DRint(FMul(normalized, Fl(DSub(DPow2(adc_bits), DInt(1))))))

\* adc_output - dc_bias, with
\* adc_output = quantized_levels / (adc_levels - 1) * (adc_max - adc_min) + adc_min
DcRemovedSample(level, adc_min, adc_max, dc_bias, adc_bits) == After(level,
    FSub(FAdd(FMul(FDiv(level, Fl(DSub(DPow2(adc_bits), DInt(1)))),
                   FSub(adc_max, adc_min)),
              adc_min),
         dc_bias))

\* lines 223-238: dc_removed
DcRemoved(signal, adc_min, adc_max, dc_bias, adc_bits) ==
    Array([i \in 1..Len(signal) |->
              DcRemovedSample(
                  RoundedLevel(
                      Normalized(ClippedSample(BiasedSample(signal[i], dc_bias),
                                               adc_min, adc_max),
                                 adc_min, adc_max),
                      adc_bits),
                  adc_min, adc_max, dc_bias, adc_bits)])

\* (dc_removed * input_scale).astype(np.int32) with input_scale = 2**(adc_bits-1)
AdcScaledInput(dc_removed, adc_bits, b) ==
    Array([i \in 1..Len(dc_removed) |->
              AsInt32(FMul(dc_removed[i], Fl(DPow2(adc_bits - 1))), b)])

\* the inner loop over k (taps 1..k done) for output sample n (1..N):
\* sample_idx = n - k + shift with shift = (M - 1) // 2, used if 0 <= sample_idx < N
RECURSIVE CenteredAccumulate(_, _, _, _)
CenteredAccumulate(si, cf, n, k) ==
    IF k = 0 THEN DZero
    ELSE IF 0 <= n - k + ((Len(cf) - 1) \div 2)
            /\ n - k + ((Len(cf) - 1) \div 2) < Len(si)
         THEN DAdd(CenteredAccumulate(si, cf, n, k - 1),
                   TapProduct(si[n - k + ((Len(cf) - 1) \div 2) + 1], cf[k]))
         ELSE CenteredAccumulate(si, cf, n, k - 1)

\* filtered_output
CenteredOutput(si, cf) ==
    Array([n \in 1..Len(si) |-> CenteredAccumulate(si, cf, n, Len(cf))])

\* coeff_frac_bits + np.log2(input_scale).astype(int)
AdcOutputShift(adc_bits, coeff_frac_bits) == coeff_frac_bits + (adc_bits - 1)

\* lines 261-281, from the accumulators on
AdcFilterReport(signal, adc_min, adc_max, dc_bias, adc_bits, coeff_frac_bits, filtered_output) ==
    After(filtered_output,
    [raised |-> "no",
     final_output |->
        Array([n \in 1..Len(filtered_output) |->
                  FDiv(Fl(filtered_output[n]),
                       Fl(DPow2(AdcOutputShift(adc_bits, coeff_frac_bits))))]),
     processing_info |->
        [adc_bits |-> adc_bits,
         quantization_levels |-> DPow2(adc_bits),
         input_scaling |-> DPow2(adc_bits - 1),
         output_shift |-> AdcOutputShift(adc_bits, coeff_frac_bits),
         clipping_samples |-> ClippedSamples(signal, adc_min, adc_max, dc_bias)]])

\* The call.  np.min of the empty signal raises ValueError while the report
\* is built.
ApplyFixedPointFilter8BitAdc(signal, cf, adc_bits, adc_min, adc_max, dc_bias, coeff_frac_bits, b) ==
    IF Len(signal) = 0
    THEN [raised |-> "ValueError"]
    ELSE AdcFilterReport(signal, adc_min, adc_max, dc_bias, adc_bits, coeff_frac_bits,
             CenteredOutput(AdcScaledInput(DcRemoved(signal, adc_min, adc_max,
                                                     dc_bias, adc_bits),
                                           adc_bits, b),
                            cf))

(***************************************************************************)
(* adc_simulation.py: simulate_adc_dac_with_dc_removal(signal, adc_bits,   *)
(* dac_bits, adc_range, dac_range, dc_bias, hpf_cutoff): the quantizer,    *)
(* the high-pass scan over its output, then the DAC.  The report keeps the *)
(* local arrays adc_output, dc_removed and quantized_dac_levels next to    *)
(* what the function returns; the SNR and DC figures are not modelled      *)
(* (numpy evaluates them without raising).                                 *)
(***************************************************************************)
\* np.pi, the float64 884279719003555 * 2^-48
NpPi == DMake(FALSE, <<1443, 21777, 4349, 25>>, -48)

\* alpha = 1 - 2 * np.pi * hpf_cutoff
HpfAlpha(hpf_cutoff) == FSub(DInt(1), FMul(FMul(DInt(2), NpPi), hpf_cutoff))

\* the loop body without the feedback term
ScanStepNoFeedback(alpha, x, y) == After(y,
    Append(y, FSub(x[Len(y) + 1], x[Len(y)])))

\* the loop body for n = Len(y) (y holds dc_removed[0 .. n - 1]):
\* dc_removed[n] = alpha * dc_removed[n-1] + (adc_output[n] - adc_output[n-1])
ScanStep(alpha, x, y) == After(y,
    Append(y, FAdd(FMul(alpha, y[Len(y)]), FSub(x[Len(y) + 1], x[Len(y)]))))

\* dc_removed after the loop has run up to sample n - 1; np.zeros_like
\* leaves dc_removed[0] at 0.0
RECURSIVE DcRemovalScan(_, _, _)
DcRemovalScan(alpha, x, n) ==
    IF n = 0 THEN <<>>
    ELSE IF n = 1 THEN <<DZero>>
    ELSE ScanStep(alpha, x, DcRemovalScan(alpha, x, n - 1))

\* np.round(normalized_dac * (dac_levels - 1))
DacLevel(v, dac_min, dac_max, dac_bits) ==
    DRint(FMul(Normalized(Clip(v, dac_min, dac_max), dac_min, dac_max),
               Fl(DSub(DPow2(dac_bits), DInt(1)))))

\* (quantized_dac_levels / (dac_levels - 1)) * (dac_max - dac_min) + dac_min
DacVoltage(level, dac_min, dac_max, dac_bits) == After(level,
    FAdd(FMul(FDiv(level, Fl(DSub(DPow2(dac_bits), DInt(1)))),
              FSub(dac_max, dac_min)),
         dac_min))

\* lines 270-307, from dc_removed and the levels on
ChainReport(adc_output, alpha, dc_removed, dac_min, dac_max, dac_bits, levels) ==
    After(<<dc_removed, levels>>,
    [raised |-> "no",
     dac_output |->
        Array([n \in 1..Len(levels) |-> DacVoltage(levels[n], dac_min, dac_max, dac_bits)]),
     adc_output |-> adc_output,
     dc_removed |-> dc_removed,
     quantized_dac_levels |-> levels,
     dac_info |->
        [bits |-> dac_bits,
         levels |-> DPow2(dac_bits),
         clipped_samples |->
            Cardinality({n \in 1..Len(dc_removed) :
                            IsClipped(dc_removed[n], dac_min, dac_max)})],
     dc_removal |-> [alpha |-> alpha]])

\* the DAC stage
ChainDac(adc_output, alpha, dc_removed, dac_min, dac_max, dac_bits) ==
    After(dc_removed,
    ChainReport(adc_output, alpha, dc_removed, dac_min, dac_max, dac_bits,
        Array([n \in 1..Len(dc_removed) |->
                  DacLevel(dc_removed[n], dac_min, dac_max, dac_bits)])))

\* the call from the quantizer's return on; its exception leaves the
\* function
ChainAfterAdc(adc, alpha, dac_min, dac_max, dac_bits) == After(adc,
    IF adc.raised # "no"
    THEN [raised |-> adc.raised]
    ELSE ChainDac(adc.digitized_signal, alpha,
                  DcRemovalScan(alpha, adc.digitized_signal, Len(adc.digitized_signal)),
                  dac_min, dac_max, dac_bits))

SimulateAdcDacWithDcRemoval(signal, adc_bits, dac_bits, adc_min, adc_max, dac_min, dac_max, dc_bias, hpf_cutoff) ==
    ChainAfterAdc(Simulate8BitAdc(signal, adc_min, adc_max, dc_bias, adc_bits),
                  HpfAlpha(hpf_cutoff), dac_min, dac_max, dac_bits)

(***************************************************************************)
(* filter_design.py: apply_fir_filter(signal, coefficients, mode), the     *)
(* float64 reference filter.  np.convolve(..., mode='same') is given by    *)
(* its definition, the products of a sample added in the order of the      *)
(* taps; it raises ValueError on an empty array.                           *)
(***************************************************************************)
\* filtered[n] (n from 1) after the taps 0 .. k - 1:
\* filtered[n] += signal[n - k] * coefficients[k] if n - k >= 0
RECURSIVE CausalSample(_, _, _, _)
CausalSample(signal, coefficients, n, k) ==
    IF k = 0 THEN DZero
    ELSE IF n - (k - 1) >= 1
         THEN FAdd(CausalSample(signal, coefficients, n, k - 1),
                   FMul(signal[n - (k - 1)], coefficients[k]))
         ELSE CausalSample(signal, coefficients, n, k - 1)

\* sample m (from 0) of the full convolution after the taps 0 .. k - 1
RECURSIVE ConvolveFullSample(_, _, _, _)
ConvolveFullSample(x, h, m, k) ==
    IF k = 0 THEN DZero
    ELSE IF 0 <= m - (k - 1) /\ m - (k - 1) < Len(x)
         THEN FAdd(ConvolveFullSample(x, h, m, k - 1), FMul(x[m - (k - 1) + 1], h[k]))
         ELSE ConvolveFullSample(x, h, m, k - 1)

ShorterLen(x, h) == IF Len(x) <= Len(h) THEN Len(x) ELSE Len(h)

LongerLen(x, h) == IF Len(x) <= Len(h) THEN Len(h) ELSE Len(x)

\* np.convolve(x, h, mode='same'): max(N, M) samples from the middle of the
\* full convolution, the first of them its sample (min(N, M) - 1) // 2
NpConvolveSame(x, h) ==
    Array([n \in 1..LongerLen(x, h) |->
              ConvolveFullSample(x, h, (n - 1) + ((ShorterLen(x, h) - 1) \div 2), Len(h))])

ApplyFirFilter(signal, coefficients, mode) ==
    IF mode = "causal"
    THEN [raised |-> "no",
          filtered |-> Array([n \in 1..Len(signal) |->
                                 CausalSample(signal, coefficients, n, Len(coefficients))])]
    ELSE IF Len(signal) = 0 \/ Len(coefficients) = 0
         THEN [raised |-> "ValueError"]
         ELSE [raised |-> "no", filtered |-> NpConvolveSame(signal, coefficients)]

(***************************************************************************)
(* generate_iq_signal (signal_processing.py) and design_fir_lowpass        *)
(* (filter_design.py): the dispatch on the tag, the lengths of the arrays  *)
(* and the errors raised.  A symbol is known by its position in the draw;  *)
(* the carrier, window and sinc values are not modelled.  The durations    *)
(* and rates drawn are not negative.                                       *)
(***************************************************************************)
\* str.lower() as the call sites compare it, left as written
LowerAsWritten(tag) == tag

\* str.lower() on the tags drawn
Lower(tag) ==
    CASE tag = "QPSK" -> "qpsk"
      [] tag = "Chirp" -> "chirp"
      [] tag = "Hanning" -> "hanning"
      [] OTHER -> tag

\* int(duration * sampling_rate)
NumSamples(sampling_rate, duration) == DToInt(DTrunc(FMul(duration, sampling_rate)))

\* int(num_samples / symbols_per_sample) + 1
NumSymbols(num_samples, symbols_per_sample) ==
    DToInt(DTrunc(FDiv(DInt(num_samples), symbols_per_sample))) + 1

\* np.repeat(symbols, repeats)[:num_samples], each symbol as its index
Upsampled(num_symbols, repeats, num_samples) ==
    [j \in 1..(IF num_symbols * repeats < num_samples
               THEN num_symbols * repeats ELSE num_samples) |->
        ((j - 1) \div repeats) + 1]

\* the length of the product of arrays of lengths a and b, -1 when numpy
\* cannot broadcast them together
BroadcastLength(a, b) ==
    IF a = b THEN a ELSE IF a = 1 THEN b ELSE IF b = 1 THEN a ELSE -1

\* lines 61-78 and 80-101, from the upsampled symbol stream on
Modulated(num_samples, upsampled) == After(upsampled,
    IF BroadcastLength(Len(upsampled), num_samples) < 0
    THEN [raised |-> "ValueError",
          message |-> <<"operands could not be broadcast together">>]
    ELSE [raised |-> "no", t |-> num_samples,
          i_signal |-> BroadcastLength(Len(upsampled), num_samples),
          q_signal |-> BroadcastLength(Len(upsampled), num_samples),
          upsampled |-> upsampled])

\* The call, symbol_rate given.  t, i_signal and q_signal are the lengths of
\* the arrays returned.
GenerateIqSignal(sampling_rate, duration, modulation_type, symbol_rate) ==
    IF Lower(modulation_type) \in {"cw", "chirp"}
    THEN [raised |-> "no", t |-> NumSamples(sampling_rate, duration),
          i_signal |-> NumSamples(sampling_rate, duration),
          q_signal |-> NumSamples(sampling_rate, duration)]
    ELSE IF Lower(modulation_type) \in {"qpsk", "qam16"}
    THEN IF DIsZero(symbol_rate)
         THEN [raised |-> "ZeroDivisionError", message |-> <<"division by zero">>]
         ELSE Modulated(NumSamples(sampling_rate, duration),
                        Upsampled(NumSymbols(NumSamples(sampling_rate, duration),
                                             FDiv(sampling_rate, symbol_rate)),
                                  DToInt(DTrunc(FDiv(sampling_rate, symbol_rate))),
                                  NumSamples(sampling_rate, duration)))
    ELSE [raised |-> "ValueError",
          message |-> <<"Unknown modulation type", modulation_type>>]

\* design_fir_lowpass: h is the length of the coefficient array returned
DesignFirLowpass(num_taps, window) ==
    IF Lower(window) \in {"hamming", "hanning", "blackman", "bartlett", "rectangular"}
    THEN [raised |-> "no", h |-> num_taps]
    ELSE [raised |-> "ValueError", message |-> <<"Unknown window type", window>>]

(***************************************************************************)
(* State.  A behaviour is a call and at most one more step: a second call  *)
(* or a store by the caller.  pc names the function to call ("conv",       *)
(* "fir", "adc", "adcfir", "chain", "iq", "design"); it turns to "done"    *)
(* when the call returns and to "raised" when an exception leaves it       *)
(* ("adcfir_done", "chain_done" and so on for the later functions), then   *)
(* to "done2" or "raised2" after the second call ("dual_done" after        *)
(* simulate_dual_8bit_adc, "float_done" after apply_fir_filter, "written"  *)
(* after the caller's store).  args and ret are the arguments and what the *)
(* first call returned, args2 and ret2 those of the second call, build the *)
(* build the process runs on.  The functions keep nothing between calls;   *)
(* the process keeps the state of numpy's global generator, rng: the       *)
(* number of draws taken since the seed.                                   *)
(***************************************************************************)
VARIABLES pc, build, rng, args, ret, args2, ret2

vars == <<pc, build, rng, args, ret, args2, ret2>>

None == [raised |-> "none"]

\* the inputs drawn for float_to_fixed_point
MaxTaps == 2

CoeffValues ==
    {Lit(1, 10), Lit(1, 2), Lit(-3, 10), DInt(-1), Lit(3, 2), Lit(3, 4)}

ExampleCoeffs == <<Lit(1, 10), Lit(1, 2), Lit(-3, 10)>>

CoeffSeqs ==
    UNION {[1..n -> CoeffValues] : n \in 0..MaxTaps} \cup {ExampleCoeffs}

\* <<int_bits, frac_bits>>: Q1.15 (the default), Q2.2, Q1.31 and Q1.32
Formats == {<<1, 15>>, <<2, 2>>, <<1, 31>>, <<1, 32>>}

InitConv ==
    /\ pc = "conv"
    /\ build \in Builds
    /\ \E cs \in CoeffSeqs, f \in Formats :
          args = [coeffs |-> cs, int_bits |-> f[1], frac_bits |-> f[2]]
    /\ rng = 0
    /\ ret = None
    /\ args2 = None
    /\ ret2 = None

Convert ==
    /\ pc = "conv"
    /\ ret' = FloatToFixedPoint(args.coeffs, args.int_bits, args.frac_bits, build)
    /\ pc' = IF ret'.raised = "no" THEN "done" ELSE "raised"
    /\ UNCHANGED <<build, rng, args, args2, ret2>>

NextConv == Convert

SpecConv == InitConv /\ [][NextConv]_vars

\* The caller stores v in element i of the array it passed as coeffs, after
\* the call has returned.  conversion_info['original_coeffs'] is that same
\* array object (fixed_point.py line 85), so the element read through the
\* report changes with it; every other array of the report was allocated by
\* the call (coeffs * scale_factor, np.clip, np.round, astype, np.abs).
WriteCoeffs ==
    /\ pc = "done"
    /\ "coeffs" \in DOMAIN args
    /\ \E i \in 1..Len(args.coeffs), v \in {DInt(-1), Lit(3, 4)} :
          /\ args' = [args EXCEPT !.coeffs[i] = v]
          /\ ret' = [ret EXCEPT !.conversion_info.original_coeffs[i] = v]
    /\ pc' = "written"
    /\ UNCHANGED <<build, rng, args2, ret2>>

NextConvWrite == Convert \/ WriteCoeffs

SpecConvWrite == InitConv /\ [][NextConvWrite]_vars

\* the inputs drawn for apply_fixed_point_filter
MaxSamples == 2

FirSignalValues == {Lit(1, 2), Lit(-3, 10), DInt(4)}

FirSignals == UNION {[1..n -> FirSignalValues] : n \in 0..MaxSamples}

\* the taps 0.5 and 0.25 in Q1.15, as float_to_fixed_point returns them
TapsQ15 == <<DInt(16384), DInt(8192)>>

\* the taps 1, 0, 0 at scale 1 (frac_bits = 0)
TapsUnit == <<DInt(1), DInt(0), DInt(0)>>

\* <<fixed_point_coeffs, accumulator_bits, output_shift, input_scaling>>
FirConfigs ==
    {<<TapsQ15, 32, 15, DInt(1)>>, <<TapsQ15, 16, 15, DInt(1)>>,
     <<TapsQ15, 32, 15, Lit(1, 4)>>,
     <<TapsUnit, 32, 15, DInt(1)>>, <<TapsUnit, 32, 0, DInt(1)>>}

InitFir ==
    /\ pc = "fir"
    /\ build \in Builds
    /\ \E sg \in FirSignals, c \in FirConfigs :
          args = [signal |-> sg, fixed_point_coeffs |-> c[1],
                  accumulator_bits |-> c[2], output_shift |-> c[3],
                  input_scaling |-> c[4]]
    /\ rng = 0
    /\ ret = None
    /\ args2 = None
    /\ ret2 = None

CallFilter(a) ==
    ApplyFixedPointFilter(a.signal, a.fixed_point_coeffs, a.accumulator_bits,
                          a.output_shift, a.input_scaling, build)

Filter ==
    /\ pc = "fir"
    /\ ret' = CallFilter(args)
    /\ pc' = IF ret'.raised = "no" THEN "done" ELSE "raised"
    /\ UNCHANGED <<build, rng, args, args2, ret2>>

\* a second call, on a signal of the same length that starts as the first
\* call's signal does, with the same coefficients and parameters
FilterOther ==
    /\ pc = "done"
    /\ "fixed_point_coeffs" \in DOMAIN args
    /\ \E sg \in FirSignals :
          /\ Len(sg) = Len(args.signal)
          /\ sg[1] = args.signal[1]
          /\ args2' = [args EXCEPT !.signal = sg]
    /\ ret2' = CallFilter(args2')
    /\ pc' = IF ret2'.raised = "no" THEN "done2" ELSE "raised2"
    /\ UNCHANGED <<build, rng, args, ret>>

NextFir == Filter \/ FilterOther

SpecFir == InitFir /\ [][NextFir]_vars

\* The float64 reference on the signal of the call that has returned, with
\* the coefficients reconstructed from its fixed-point ones at the default
\* coeff_frac_bits = 15.
FilterFloat ==
    /\ pc = "done"
    /\ "fixed_point_coeffs" \in DOMAIN args
    /\ \E m \in {"causal", "same"} :
          args2' = [signal |-> args.signal,
                    coefficients |-> ReconstructedCoeffs(args.fixed_point_coeffs, 15),
                    mode |-> m]
    /\ ret2' = ApplyFirFilter(args2'.signal, args2'.coefficients, args2'.mode)
    /\ pc' = IF ret2'.raised = "no" THEN "float_done" ELSE "float_raised"
    /\ UNCHANGED <<build, rng, args, ret>>

\* signals on the grid of 2^-15 (0.5, -3/32768, 5/32768 and 4.0) for the
\* fixed-point filter and its float64 reference; Q1.15 taps with the 32-bit
\* and the 16-bit accumulator, and the unit taps
GridSignalValues ==
    {Lit(1, 2), DMake(TRUE, <<3>>, -15), DMake(FALSE, <<5>>, -15), DInt(4)}

GridSignals == UNION {[1..n -> GridSignalValues] : n \in 0..MaxSamples}

InitGrid ==
    /\ pc = "fir"
    /\ build \in Builds
    /\ \E sg \in GridSignals,
          c \in {<<TapsQ15, 32>>, <<TapsQ15, 16>>, <<TapsUnit, 32>>} :
          args = [signal |-> sg, fixed_point_coeffs |-> c[1],
                  accumulator_bits |-> c[2], output_shift |-> 15,
                  input_scaling |-> DInt(1)]
    /\ rng = 0
    /\ ret = None
    /\ args2 = None
    /\ ret2 = None

NextGrid == Filter \/ FilterFloat

SpecGrid == InitGrid /\ [][NextGrid]_vars

\* the inputs drawn for simulate_8bit_adc
AdcSignalValues ==
    {DZero, Lit(1, 2), Lit(-161, 100), Lit(33, 40), DInt(2)}

AdcSignals == UNION {[1..n -> AdcSignalValues] : n \in 0..MaxSamples}

\* <<adc_min, adc_max, dc_bias, bits>>: the default, a 3.3 V converter, a
\* bipolar 3-bit one without bias, and the default range with bits = 0
AdcConfigs ==
    {<<DZero, Lit(25, 10), Lit(125, 100), 8>>,
     <<DZero, Lit(33, 10), Lit(165, 100), 8>>,
     <<DInt(-1), DInt(1), DZero, 3>>,
     <<DZero, Lit(25, 10), Lit(125, 100), 0>>}

\* simulate_8bit_adc casts no float to an integer type: one build stands for
\* all.  add_noise and noise_std are left at their defaults.
InitAdc ==
    /\ pc = "adc"
    /\ build = "wrap"
    /\ \E sg \in AdcSignals, c \in AdcConfigs :
          args = [signal |-> sg, adc_min |-> c[1], adc_max |-> c[2],
                  dc_bias |-> c[3], bits |-> c[4],
                  add_noise |-> FALSE, noise_std |-> Lit(1, 1000)]
    /\ rng = 0
    /\ ret = None
    /\ args2 = None
    /\ ret2 = None

CallAdc(a) == Simulate8BitAdc(a.signal, a.adc_min, a.adc_max, a.dc_bias, a.bits)

CallAdcNoise(a, g) ==
    Simulate8BitAdcNoise(a.signal, a.adc_min, a.adc_max, a.dc_bias, a.bits,
                         a.add_noise, a.noise_std, g)

\* the call; with add_noise it takes one draw a sample from the generator
Quantize ==
    /\ pc = "adc"
    /\ ret' = CallAdcNoise(args, rng)
    /\ rng' = IF args.add_noise THEN rng + Len(args.signal) ELSE rng
    /\ pc' = IF ret'.raised = "no" THEN "done" ELSE "raised"
    /\ UNCHANGED <<build, args, args2, ret2>>

\* a second call with the same configuration: after a call without noise,
\* on the first call's output; after a call with noise, on the same signal,
\* with noise or without
Requantize ==
    /\ pc = "done"
    /\ "adc_min" \in DOMAIN args
    /\ \E b \in {FALSE, args.add_noise} :
          args2' = IF args.add_noise
                   THEN [args EXCEPT !.add_noise = b]
                   ELSE [args EXCEPT !.signal = ret.digitized_signal]
    /\ ret2' = CallAdcNoise(args2', rng)
    /\ rng' = IF args2'.add_noise THEN rng + Len(args2'.signal) ELSE rng
    /\ pc' = IF ret2'.raised = "no" THEN "done2" ELSE "raised2"
    /\ UNCHANGED <<build, args, ret>>

\* simulate_dual_8bit_adc on the signal as the I channel and a constant Q
\* channel of the same length, without mismatch or with <<mismatch_gain,
\* mismatch_offset>> = <<0.5, 0.25>>; mismatch_phase is 0.0 throughout
QuantizeDual ==
    /\ pc = "adc"
    /\ \E v \in {Lit(1, 2), DInt(-2)},
          mm \in {<<DZero, DZero>>, <<Lit(1, 2), Lit(1, 4)>>} :
          /\ args2' = [q_signal |-> [k \in 1..Len(args.signal) |-> v],
                       mismatch_gain |-> mm[1], mismatch_offset |-> mm[2]]
          /\ ret' = SimulateDual8BitAdc(args.signal, args2'.q_signal,
                                        args.adc_min, args.adc_max, args.dc_bias,
                                        args.bits, mm[1], mm[2])
    /\ pc' = IF ret'.raised = "no" THEN "dual_done" ELSE "dual_raised"
    /\ UNCHANGED <<build, rng, args, ret2>>

NextAdc == Quantize \/ Requantize \/ QuantizeDual

SpecAdc == InitAdc /\ [][NextAdc]_vars

\* the three functions on the sequences of at most one element
InitShort ==
    \/ InitConv /\ Len(args.coeffs) <= 1
    \/ InitFir /\ Len(args.signal) <= 1
    \/ InitAdc /\ Len(args.signal) <= 1

NextShort == Convert \/ Filter \/ Quantize

SpecShort == InitShort /\ [][NextShort]_vars

\* calls with add_noise=True and noise_std = 0.01, on the default converter
\* and the bipolar one
InitNoise ==
    /\ pc = "adc"
    /\ build = "wrap"
    /\ \E sg \in AdcSignals,
          c \in {<<DZero, Lit(25, 10), Lit(125, 100), 8>>, <<DInt(-1), DInt(1), DZero, 3>>} :
          args = [signal |-> sg, adc_min |-> c[1], adc_max |-> c[2],
                  dc_bias |-> c[3], bits |-> c[4],
                  add_noise |-> TRUE, noise_std |-> Lit(1, 100)]
    /\ rng = 0
    /\ ret = None
    /\ args2 = None
    /\ ret2 = None

NextNoise == Quantize \/ Requantize

SpecNoise == InitNoise /\ [][NextNoise]_vars

\* the inputs drawn for apply_fixed_point_filter_8bit_adc: one, two and
\* three taps in Q1.15; <<adc_min, adc_max, dc_bias, adc_bits>> the
\* function's defaults, the quantizer's defaults and a bipolar 3-bit
\* converter without bias
InitAdcFir ==
    /\ pc = "adcfir"
    /\ build = "wrap"
    /\ \E sg \in AdcSignals,
          cf \in {<<DInt(16384)>>, TapsQ15, <<DInt(8192), DInt(16384), DInt(-8192)>>},
          c \in {<<DInt(-1), DInt(1), Lit(125, 100), 8>>,
                 <<DZero, Lit(25, 10), Lit(125, 100), 8>>,
                 <<DInt(-1), DInt(1), DZero, 3>>} :
          args = [signal |-> sg, fixed_point_coeffs |-> cf,
                  adc_min |-> c[1], adc_max |-> c[2], dc_bias |-> c[3],
                  adc_bits |-> c[4], coeff_frac_bits |-> 15]
    /\ rng = 0
    /\ ret = None
    /\ args2 = None
    /\ ret2 = None

FilterAdc ==
    /\ pc = "adcfir"
    /\ ret' = ApplyFixedPointFilter8BitAdc(args.signal, args.fixed_point_coeffs,
                                           args.adc_bits, args.adc_min, args.adc_max,
                                           args.dc_bias, args.coeff_frac_bits, build)
    /\ pc' = IF ret'.raised = "no" THEN "adcfir_done" ELSE "adcfir_raised"
    /\ UNCHANGED <<build, rng, args, args2, ret2>>

NextAdcFir == FilterAdc

SpecAdcFir == InitAdcFir /\ [][NextAdcFir]_vars

\* the inputs drawn for simulate_adc_dac_with_dc_removal: signals of up to
\* MaxSamples + 1 samples, the third being the first whose value depends on
\* alpha; the quantizer at its defaults; <<dac_min, dac_max, dac_bits,
\* hpf_cutoff>> the defaults and a 3-bit DAC over (-0.1, 0.2)
ChainSignalValues == {Lit(-161, 100), Lit(1, 2), DInt(2)}

ChainSignals == UNION {[1..n -> ChainSignalValues] : n \in 0..(MaxSamples + 1)}

ChainConfigs ==
    {<<DInt(-1), DInt(1), 12, Lit(1, 100)>>,
     <<Lit(-1, 10), Lit(2, 10), 3, Lit(1, 10)>>}

InitChain ==
    /\ pc = "chain"
    /\ build = "wrap"
    /\ \E sg \in ChainSignals, c \in ChainConfigs :
          args = [signal |-> sg, adc_bits |-> 8, dac_bits |-> c[3],
                  adc_range |-> <<DZero, Lit(25, 10)>>, dac_range |-> <<c[1], c[2]>>,
                  dc_bias |-> Lit(125, 100), hpf_cutoff |-> c[4]]
    /\ rng = 0
    /\ ret = None
    /\ args2 = None
    /\ ret2 = None

CallChain(a) ==
    SimulateAdcDacWithDcRemoval(a.signal, a.adc_bits, a.dac_bits,
                                a.adc_range[1], a.adc_range[2],
                                a.dac_range[1], a.dac_range[2],
                                a.dc_bias, a.hpf_cutoff)

Chain ==
    /\ pc = "chain"
    /\ ret' = CallChain(args)
    /\ pc' = IF ret'.raised = "no" THEN "chain_done" ELSE "chain_raised"
    /\ UNCHANGED <<build, rng, args, args2, ret2>>

\* a second call, on the signal of the first with one of its last two
\* samples replaced
ChainOther ==
    /\ pc = "chain_done"
    /\ \E j \in (Len(args.signal) - 1)..Len(args.signal), v \in ChainSignalValues :
          /\ j >= 1
          /\ args2' = [args EXCEPT !.signal[j] = v]
    /\ ret2' = CallChain(args2')
    /\ pc' = IF ret2'.raised = "no" THEN "chain_done2" ELSE "chain_raised2"
    /\ UNCHANGED <<build, rng, args, ret>>

NextChain == Chain \/ ChainOther

SpecChain == InitChain /\ [][NextChain]_vars

\* the inputs drawn for generate_iq_signal and design_fir_lowpass
InitGen ==
    /\ build = "wrap"
    /\ \/ /\ pc = "iq"
          /\ \E sr \in {DInt(6), DInt(8)}, d \in {DZero, Lit(1, 2), DInt(1)},
                m \in {"cw", "qpsk", "qam16", "chirp", "QPSK", "Chirp", "fsk", ""},
                y \in {DZero, DInt(2), DInt(4), DInt(16)} :
                args = [sampling_rate |-> sr, duration |-> d,
                        modulation_type |-> m, symbol_rate |-> y]
       \/ /\ pc = "design"
          /\ \E n \in 0..3,
                w \in {"hamming", "hanning", "blackman", "bartlett", "rectangular",
                       "Hanning", "kaiser", "qpsk"} :
                args = [num_taps |-> n, window |-> w]
    /\ rng = 0
    /\ ret = None
    /\ args2 = None
    /\ ret2 = None

Generate ==
    /\ pc = "iq"
    /\ ret' = GenerateIqSignal(args.sampling_rate, args.duration,
                               args.modulation_type, args.symbol_rate)
    /\ rng' = IF Lower(args.modulation_type) \in {"qpsk", "qam16"}
                  /\ ~DIsZero(args.symbol_rate)
               THEN rng + NumSymbols(NumSamples(args.sampling_rate, args.duration),
                                     FDiv(args.sampling_rate, args.symbol_rate))
               ELSE rng
    /\ pc' = IF ret'.raised = "no" THEN "done" ELSE "raised"
    /\ UNCHANGED <<build, args, args2, ret2>>

Design ==
    /\ pc = "design"
    /\ ret' = DesignFirLowpass(args.num_taps, args.window)
    /\ pc' = IF ret'.raised = "no" THEN "done" ELSE "raised"
    /\ UNCHANGED <<build, rng, args, args2, ret2>>

NextGen == Generate \/ Design

SpecGen == InitGen /\ [][NextGen]_vars

\* any call of the toolkit
Init ==
    \/ InitConv \/ InitFir \/ InitAdc \/ InitNoise
    \/ InitAdcFir \/ InitChain \/ InitGrid \/ InitGen

Next ==
    \/ Convert \/ WriteCoeffs \/ Filter \/ FilterOther \/ FilterFloat
    \/ Quantize \/ Requantize \/ QuantizeDual
    \/ FilterAdc \/ Chain \/ ChainOther
    \/ Generate \/ Design

Spec == Init /\ [][Next]_vars

(***************************************************************************)
(* Claims about float_to_fixed_point, checked under SpecConv.  They are    *)
(* stated on the real numbers: ExactScaled is coeff * 2^frac_bits without  *)
(* any rounding.                                                           *)
(***************************************************************************)
ConvReturned == pc = "done" /\ "coeffs" \in DOMAIN args

ExactScaled(c, frac_bits) == DMul(c, DPow2(frac_bits))

InFormat(v, total_bits) == DLe(MinVal(total_bits), v) /\ DLe(v, MaxVal(total_bits))

\* C1: the fixed-point sequence has the length of the input, every element
\* lies in [min_val, max_val], and a coefficient scaled above max_val (below
\* min_val) is returned as max_val (min_val), for every format.
C1_Saturates ==
    ConvReturned =>
        /\ Len(ret.fixed_point_coeffs) = Len(args.coeffs)
        /\ \A i \in 1..Len(args.coeffs) :
              /\ InFormat(ret.fixed_point_coeffs[i], args.int_bits + args.frac_bits)
              /\ DLt(MaxVal(args.int_bits + args.frac_bits),
                     ExactScaled(args.coeffs[i], args.frac_bits))
                    => ret.fixed_point_coeffs[i] = MaxVal(args.int_bits + args.frac_bits)
              /\ DLt(ExactScaled(args.coeffs[i], args.frac_bits),
                     MinVal(args.int_bits + args.frac_bits))
                    => ret.fixed_point_coeffs[i] = MinVal(args.int_bits + args.frac_bits)

ScaledOutOfFormat ==
    \E i \in 1..Len(args.coeffs) :
        ~InFormat(ExactScaled(args.coeffs[i], args.frac_bits),
                  args.int_bits + args.frac_bits)

C3_RoundTrip ==
    (ConvReturned /\ ret.conversion_info.overflow_count = 0) =>
        /\ \A i \in 1..Len(args.coeffs) :
              DLe(DAbs(DSub(ExactScaled(args.coeffs[i], args.frac_bits),
                            ret.fixed_point_coeffs[i])),
                  DPow2(-1))
        /\ DLe(ret.conversion_info.max_quantization_error,
               DPow2(-(args.frac_bits + 1)))
        /\ (args.coeffs = ExampleCoeffs /\ args.int_bits = 1 /\ args.frac_bits = 15)
              => /\ ret.conversion_info.scale_factor = DInt(32768)
                 /\ ret.fixed_point_coeffs = <<DInt(3277), DInt(16384), DInt(-9830)>>

(***************************************************************************)
(* Claims about apply_fixed_point_filter, checked under SpecFir.  The tap  *)
(* sum and the output are stated on the integers and the reals, from the   *)
(* integer scaled inputs of the call.                                      *)
(***************************************************************************)
FirCalled == "fixed_point_coeffs" \in DOMAIN args

FirReturned == pc = "done" /\ FirCalled

\* the integer scaled inputs of the call
FirScaledInput == ScaledInput(args.signal, InputScale(args.input_scaling), build)

\* sum over the taps k = 0 .. m - 1 with n - k >= 0 of si[n - k] * cf[k], as an
\* integer of unbounded width (sample n of the code is si[n + 1] here)
RECURSIVE RawTapSum(_, _, _, _)
RawTapSum(si, cf, n, m) ==
    IF m = 0 THEN DZero
    ELSE IF n - (m - 1) >= 0
         THEN DAdd(RawTapSum(si, cf, n, m - 1), DMul(si[n - (m - 1) + 1], cf[m]))
         ELSE RawTapSum(si, cf, n, m - 1)

OutOfAccumulator(sum, accumulator_bits) ==
    \/ DLt(AccumulatorMax(accumulator_bits), sum)
    \/ DLt(sum, AccumulatorMin(accumulator_bits))

\* floor(clamp(sum, accumulator_min, accumulator_max) / 2^output_shift) / 2^15
ClampedShifted(sum, accumulator_bits, output_shift) ==
    DScale(DFloor(DScale(Clip(sum, AccumulatorMin(accumulator_bits),
                                   AccumulatorMax(accumulator_bits)),
                         -output_shift)),
           -InputBits)

\* C4: every output sample is the tap sum over the taps with n - k >= 0,
\* saturated to the accumulator range, shifted right by output_shift with
\* floor rounding, and divided by 2^15.
C4_OutputSample ==
    FirReturned =>
        \A n \in 1..Len(args.signal) :
            ret.filtered_signal[n]
              = ClampedShifted(RawTapSum(FirScaledInput, args.fixed_point_coeffs,
                                         n - 1, Len(args.fixed_point_coeffs)),
                               args.accumulator_bits, args.output_shift)

\* the output indices whose raw tap sum lies outside the accumulator range
OverflowedSamples ==
    {n \in 1..Len(args.signal) :
        OutOfAccumulator(RawTapSum(FirScaledInput, args.fixed_point_coeffs,
                                   n - 1, Len(args.fixed_point_coeffs)),
                         args.accumulator_bits)}

\* C5: the call returns instead of raising; a tap sum outside the accumulator
\* range is clamped to the nearer bound before the shift; overflow_count is
\* the number of such samples and overflow_rate is overflow_count / len(signal).
C5_OverflowCounted ==
    FirCalled =>
        /\ pc # "raised"
        /\ pc = "done" =>
              /\ \A n \in OverflowedSamples :
                    ret.filtered_signal[n]
                      = ClampedShifted(RawTapSum(FirScaledInput, args.fixed_point_coeffs,
                                                 n - 1, Len(args.fixed_point_coeffs)),
                                       args.accumulator_bits, args.output_shift)
              /\ ret.simulation_info.overflow_count = Cardinality(OverflowedSamples)
              /\ ret.simulation_info.overflow_rate
                    = FDiv(DInt(ret.simulation_info.overflow_count),
                           DInt(Len(args.signal)))

\* both calls of a pair have returned
FirPairReturned == pc = "done2" /\ FirCalled

\* C6: the output has the length of the input, and two signals of equal
\* length that agree on samples 0..n give outputs that agree on samples 0..n.
C6_Causal ==
    FirPairReturned =>
        /\ Len(ret.filtered_signal) = Len(args.signal)
        /\ Len(ret2.filtered_signal) = Len(args2.signal)
        /\ \A n \in 1..Len(args.signal) :
              (\A m \in 1..n : args.signal[m] = args2.signal[m])
                 => \A m \in 1..n : ret.filtered_signal[m] = ret2.filtered_signal[m]

\* two signals that differ after their first sample, as do their outputs
C6_Witness ==
    /\ FirPairReturned
    /\ Len(args.signal) >= 2
    /\ args.signal[1] = args2.signal[1]
    /\ args.signal[2] # args2.signal[2]
    /\ ret.filtered_signal[1] = ret2.filtered_signal[1]
    /\ ret.filtered_signal[2] # ret2.filtered_signal[2]

\* C7 as written: with coefficients [1, 0, 0] the output equals the input at
\* every index.
C7_IdentityReproduces ==
    (FirReturned /\ args.fixed_point_coeffs = TapsUnit) =>
        \A n \in 1..Len(args.signal) : ret.filtered_signal[n] = args.signal[n]

\* the sample is an integer multiple of 2^-15 whose scaled value fits int32
OnInputGrid(x) == DIsInt(DScale(x, InputBits)) /\ InInt32(DScale(x, InputBits))

\* the call applies [1, 0, 0] with output_shift 0, input_scaling 1.0 and the
\* 32-bit accumulator
UnitGainCall ==
    /\ args.fixed_point_coeffs = TapsUnit
    /\ args.output_shift = 0
    /\ args.input_scaling = DInt(1)
    /\ args.accumulator_bits = 32

\* C7 amended: with coefficients [1, 0, 0], output_shift 0, input_scaling 1.0
\* and the 32-bit accumulator, the output equals the input at every index whose
\* sample is an integer multiple of 2^-15 with a scaled value inside int32.
C7_IdentityOnGrid ==
    (FirReturned /\ UnitGainCall) =>
        \A n \in 1..Len(args.signal) :
            OnInputGrid(args.signal[n]) => ret.filtered_signal[n] = args.signal[n]

\* a unit-gain call has returned a non-zero grid sample at its second index
C7_Witness ==
    /\ FirReturned
    /\ UnitGainCall
    /\ Len(args.signal) >= 2
    /\ OnInputGrid(args.signal[2])
    /\ ~DIsZero(args.signal[2])
    /\ ret.filtered_signal[2] = args.signal[2]

\* signal[i] * input_scaling * 2^15 on the real numbers
ExactScaledSample(x, input_scaling) == DMul(DMul(x, input_scaling), DPow2(InputBits))

\* C20: for every sample and every input_scaling, scaled_input[i] is
\* round(signal[i] * input_scaling * 2^15), the product rounded to nearest.
C20_InputRounded ==
    FirReturned =>
        \A i \in 1..Len(args.signal) :
            FirScaledInput[i] = DRint(ExactScaledSample(args.signal[i], args.input_scaling))

\* C21: the tap products and partial sums do not overflow natively: for
\* every output sample, the value compared against the accumulator bounds is
\* the exact sum of the tap products, never a value wrapped modulo 2^32 or
\* 2^64.
C21_NoNativeOverflow ==
    FirReturned =>
        \A n \in 1..Len(args.signal) :
            Accumulate(FirScaledInput, args.fixed_point_coeffs, n,
                       Len(args.fixed_point_coeffs))
              = RawTapSum(FirScaledInput, args.fixed_point_coeffs, n - 1,
                          Len(args.fixed_point_coeffs))

(***************************************************************************)
(* Claims about simulate_8bit_adc with add_noise = False, checked under    *)
(* SpecAdc.                                                                *)
(***************************************************************************)
AdcCalled == "adc_min" \in DOMAIN args

AdcReturned == pc = "done" /\ AdcCalled

\* clamp(floor((clip(x + dc_bias, min, max) - min) / (max - min) * 2^bits),
\*       0, 2^bits - 1), every operation in float64
LevelOf(x, a) ==
    DMinimum(DMaximum(DFloor(FMul(FDiv(FSub(DMinimum(DMaximum(FAdd(x, a.dc_bias),
                                                              a.adc_min),
                                                     a.adc_max),
                                            a.adc_min),
                                       FSub(a.adc_max, a.adc_min)),
                                  DPow2(a.bits))),
                      DInt(0)),
             DInt(2^a.bits - 1))

\* level / 2^bits * (max - min) + min - dc_bias, every operation in float64
OutputOf(level, a) ==
    FSub(FAdd(FMul(FDiv(level, DPow2(a.bits)), FSub(a.adc_max, a.adc_min)),
              a.adc_min),
         a.dc_bias)

\* C8: every output sample is the level of the input sample at the same
\* index (bias, clip, normalize, floor, clamp, in this order) mapped back to a
\* voltage with the bias removed, and depends on no other sample.
C8_SampleMap ==
    AdcReturned =>
        /\ Len(ret.digitized_signal) = Len(args.signal)
        /\ \A i \in 1..Len(args.signal) :
              /\ ret.quantized_levels[i] = LevelOf(args.signal[i], args)
              /\ ret.digitized_signal[i] = OutputOf(LevelOf(args.signal[i], args), args)

\* a returned call with a sample clamped to the top level and a sample whose
\* level lies strictly between the bounds
C8_Witness ==
    /\ AdcReturned
    /\ \E i \in 1..Len(args.signal) :
          ret.quantized_levels[i] = DInt(2^args.bits - 1)
    /\ \E i \in 1..Len(args.signal) :
          /\ DLt(DInt(0), ret.quantized_levels[i])
          /\ DLt(ret.quantized_levels[i], DInt(2^args.bits - 1))
          /\ ~DIsInt(FMul(FDiv(FSub(FAdd(args.signal[i], args.dc_bias), args.adc_min),
                               FSub(args.adc_max, args.adc_min)),
                          DPow2(args.bits)))

\* C9: quantizing the output of a call again, under the identical
\* configuration, returns that output sample for sample.
C9_Idempotent ==
    (pc = "done2" /\ AdcCalled) => ret2.digitized_signal = ret.digitized_signal

\* C10 as written: when every sample of the signal lies inside adc_range, the
\* report has clipped_samples = 0 and clipping_rate = 0.
C10_SignalInsideNotClipped ==
    (AdcReturned /\ \A i \in 1..Len(args.signal) :
                        /\ DLe(args.adc_min, args.signal[i])
                        /\ DLe(args.signal[i], args.adc_max))
    => /\ ret.adc_info.clipped_samples = 0
       /\ DIsZero(ret.adc_info.clipping_rate)

\* every sample plus dc_bias, as a real number, lies inside adc_range
BiasedInsideRange ==
    \A i \in 1..Len(args.signal) :
        /\ DLe(args.adc_min, DAdd(args.signal[i], args.dc_bias))
        /\ DLe(DAdd(args.signal[i], args.dc_bias), args.adc_max)

\* C10 amended: when every sample plus dc_bias lies inside adc_range, the
\* report has clipped_samples = 0 and clipping_rate = 0.
C10_BiasedInsideNotClipped ==
    (AdcReturned /\ BiasedInsideRange)
    => /\ ret.adc_info.clipped_samples = 0
       /\ DIsZero(ret.adc_info.clipping_rate)

\* a report for a signal that is inside the range only once the bias is added
C10_Witness ==
    /\ AdcReturned
    /\ BiasedInsideRange
    /\ \E i \in 1..Len(args.signal) : DLt(args.signal[i], args.adc_min)
    /\ ret.adc_info.clipped_samples = 0

\* the samples whose float64 biased value lies outside [adc_min, adc_max]
BiasedOutside ==
    {i \in 1..Len(args.signal) :
        \/ DLt(FAdd(args.signal[i], args.dc_bias), args.adc_min)
        \/ DLt(args.adc_max, FAdd(args.signal[i], args.dc_bias))}

\* C11: every quantized level is an integer in [0, 2^bits - 1]; a sample
\* biased below adc_min gets level 0 and one biased above adc_max gets level
\* 2^bits - 1, without an error; clipped_samples is the number of samples
\* biased outside the range and clipping_rate is clipped_samples / len(signal).
C11_LevelsSaturate ==
    AdcCalled =>
        /\ pc = "raised" => BiasedOutside = {}
        /\ pc = "done" =>
              /\ \A i \in 1..Len(args.signal) :
                    /\ DIsInt(ret.quantized_levels[i])
                    /\ DLe(DInt(0), ret.quantized_levels[i])
                    /\ DLe(ret.quantized_levels[i], DInt(2^args.bits - 1))
                    /\ DLt(DAdd(args.signal[i], args.dc_bias), args.adc_min)
                          => ret.quantized_levels[i] = DInt(0)
                    /\ DLt(args.adc_max, DAdd(args.signal[i], args.dc_bias))
                          => ret.quantized_levels[i] = DInt(2^args.bits - 1)
              /\ ret.adc_info.clipped_samples = Cardinality(BiasedOutside)
              /\ ret.adc_info.clipping_rate
                    = FDiv(DInt(Cardinality(BiasedOutside)), DInt(Len(args.signal)))

\* a report for a signal with a sample below the range and one above it
C11_Witness ==
    /\ AdcReturned
    /\ \E i \in BiasedOutside : ret.quantized_levels[i] = DInt(0)
    /\ \E i \in BiasedOutside : ret.quantized_levels[i] = DInt(2^args.bits - 1)
    /\ ret.adc_info.clipped_samples = 2

\* the sample plus dc_bias is, as a real number, the voltage of a level k:
\* adc_min + k * (adc_max - adc_min) / 2^bits
OnLevelVoltage(x, a) ==
    \E k \in 0..(2^a.bits - 1) :
        DAdd(x, a.dc_bias)
          = DAdd(a.adc_min, DScale(DMul(DInt(k), DSub(a.adc_max, a.adc_min)), -a.bits))

\* the call of the example: range (0, 2.5), dc_bias 1.25, 8 bits, all samples 0.0
MidScaleCall ==
    /\ args.adc_min = DZero /\ args.adc_max = Lit(25, 10)
    /\ args.dc_bias = Lit(125, 100) /\ args.bits = 8
    /\ \A i \in 1..Len(args.signal) : args.signal[i] = DZero

\* C12: a sample whose biased value is a level voltage inside the range is
\* returned unchanged; a signal of zeros with range (0, 2.5), dc_bias 1.25 and
\* 8 bits is returned unchanged at level 128 with snr_db = infinity.
C12_LevelVoltageReproduced ==
    AdcReturned =>
        /\ \A i \in 1..Len(args.signal) :
              OnLevelVoltage(args.signal[i], args)
                 => ret.digitized_signal[i] = args.signal[i]
        /\ MidScaleCall =>
              /\ ret.digitized_signal = args.signal
              /\ \A i \in 1..Len(args.signal) : ret.quantized_levels[i] = DInt(128)
              /\ ret.adc_info.snr_db.value = "inf"

\* C17: a call with a non-positive bit width (simulate_8bit_adc with
\* bits <= 0) fails with an error and produces no output sequence or report.
C17_NonPositiveBitsRejected ==
    (AdcCalled /\ args.bits <= 0 /\ pc \in {"done", "raised"}) => pc = "raised"

(***************************************************************************)
(* Claims about the statistics of the reports and about the dual ADC: the  *)
(* first is checked under SpecFir, the second under SpecAdc.               *)
(***************************************************************************)
\* all the values of the sequence are equal, so that its variance is zero
IsConstantSeq(s) == \A i, j \in 1..Len(s) : s[i] = s[j]

\* C13: a quantization error of zero variance gives snr_db = infinity and a
\* constant signal is quantized without an error; the filter gives
\* effective_snr_db = infinity when its output has zero deviation; and no
\* division by zero is raised to the caller.
C13_DegenerateStatistics ==
    /\ (AdcReturned
        /\ \A i, j \in 1..Len(args.signal) :
              DSub(args.signal[i], ret.digitized_signal[i])
                = DSub(args.signal[j], ret.digitized_signal[j]))
          => ret.adc_info.snr_db.value = "inf"
    /\ (AdcCalled /\ pc = "raised") => ret.raised # "ZeroDivisionError"
    /\ (FirReturned /\ IsConstantSeq(ret.filtered_signal))
          => ret.simulation_info.effective_snr_db = "inf"
    /\ (FirCalled /\ pc = "raised") => ret.raised # "ZeroDivisionError"

\* the dual call has ended, with all the mismatches zero
DualMatched ==
    /\ pc \in {"dual_done", "dual_raised"}
    /\ DIsZero(args2.mismatch_gain)
    /\ DIsZero(args2.mismatch_offset)

\* the single-channel results i_ret and q_ret against the dual result
DualAgrees(i_ret, q_ret) == After(<<i_ret, q_ret>>,
    /\ pc = "dual_raised" <=> (i_ret.raised # "no" \/ q_ret.raised # "no")
    /\ pc = "dual_done" =>
          /\ ret.i_digital = i_ret.digitized_signal
          /\ ret.i_channel = i_ret.adc_info
          /\ ret.q_digital = q_ret.digitized_signal
          /\ ret.q_channel = q_ret.adc_info)

\* C14: with all the mismatches zero, the dual quantizer returns for each
\* channel the output and the report that simulate_8bit_adc returns for that
\* channel alone (and ends in its error when that call does), so that neither
\* output depends on the other channel.
C14_DualIsTwoSingles ==
    DualMatched =>
        DualAgrees(CallAdc(args), CallAdc([args EXCEPT !.signal = args2.q_signal]))

\* a matched dual call has returned different outputs for its two channels
C14_Witness ==
    /\ DualMatched
    /\ pc = "dual_done"
    /\ ret.i_digital # ret.q_digital
    /\ ret.i_channel.clipped_samples # ret.q_channel.clipped_samples

(***************************************************************************)
(* Claims about generate_iq_signal and design_fir_lowpass, checked under   *)
(* SpecGen.                                                                *)
(***************************************************************************)
IqCalled == "modulation_type" \in DOMAIN args

IqEnded == IqCalled /\ pc \in {"done", "raised"}

\* C15: for every modulation in {cw, qpsk, qam16, chirp} and every sample
\* rate, duration and symbol rate, generate_iq_signal returns normally with
\* t, I and Q all of length int(duration * sample_rate), and for qpsk and
\* qam16 the upsampled symbol stream covers all samples.
C15_EqualLengths ==
    (IqEnded /\ Lower(args.modulation_type) \in {"cw", "qpsk", "qam16", "chirp"})
        => /\ ret.raised = "no"
           /\ ret.t = NumSamples(args.sampling_rate, args.duration)
           /\ ret.i_signal = ret.t
           /\ ret.q_signal = ret.t
           /\ "upsampled" \in DOMAIN ret => Len(ret.upsampled) = ret.t

DesignEnded == "window" \in DOMAIN args /\ pc \in {"done", "raised"}

\* the error of an unknown tag: it names the tag, and nothing else is returned
RejectedAs(what, tag) ==
    ret = [raised |-> "ValueError", message |-> <<what, tag>>]

\* the names drawn that are one of cw, qpsk, qam16, chirp in some casing
KnownModulation(tag) == tag \in {"cw", "qpsk", "qam16", "chirp", "QPSK", "Chirp"}

\* generate_iq_signal rejects exactly the modulation names outside the set,
\* compared case-insensitively
ModulationTagsChecked ==
    IqEnded =>
        IF KnownModulation(args.modulation_type)
        THEN ~(ret.raised = "ValueError" /\ ret.message[1] = "Unknown modulation type")
        ELSE RejectedAs("Unknown modulation type", args.modulation_type)

\* C16 as stated: unknown tags are rejected with an error naming the tag and
\* nothing is returned, every name inside the sets is accepted; modulation
\* names are compared case-insensitively, window names are one of hamming,
\* hanning, blackman, bartlett, rectangular as written.
C16_UnknownTagsRejected ==
    /\ ModulationTagsChecked
    /\ DesignEnded =>
          IF args.window \in {"hamming", "hanning", "blackman", "bartlett", "rectangular"}
          THEN ret.raised = "no" /\ ret.h = args.num_taps
          ELSE RejectedAs("Unknown window type", args.window)

\* C16, amended: as above, with window names compared case-insensitively too.
C16_UnknownTagsRejectedAnyCase ==
    /\ ModulationTagsChecked
    /\ DesignEnded =>
          IF args.window \in {"hamming", "hanning", "blackman", "bartlett",
                              "rectangular", "Hanning"}
          THEN ret.raised = "no" /\ ret.h = args.num_taps
          ELSE RejectedAs("Unknown window type", args.window)

\* generate_iq_signal has rejected the modulation name "fsk" by name
C16_Witness ==
    /\ IqEnded
    /\ args.modulation_type = "fsk"
    /\ RejectedAs("Unknown modulation type", "fsk")

(***************************************************************************)
(* Claims about calls in sequence, checked under SpecNoise: a call of      *)
(* simulate_8bit_adc with noise, then a second call on the same signal in  *)
(* the same process.  The seed state is rng = 0.                           *)
(***************************************************************************)
SecondReturned == pc = "done2" /\ "adc_min" \in DOMAIN args

C19_PipelinesIndependent ==
    SecondReturned => ret2 = CallAdcNoise(args2, 0)

(***************************************************************************)
(* Claims about apply_fixed_point_filter_8bit_adc, checked under           *)
(* SpecAdcFir.                                                             *)
(***************************************************************************)
AdcFirReturned == pc = "adcfir_done"

\* dc_removed and scaled_input of the call
AdcFirDcRemoved ==
    DcRemoved(args.signal, args.adc_min, args.adc_max, args.dc_bias, args.adc_bits)

AdcFirScaledInput == AdcScaledInput(AdcFirDcRemoved, args.adc_bits, build)

\* sample m (from 0) of the full convolution, taps 0 .. k - 1 done:
\* the sum of x[m - j] * h[j] over the j with 0 <= m - j < Len(x)
RECURSIVE FullConvolution(_, _, _, _)
FullConvolution(x, h, m, k) ==
    IF k = 0 THEN DZero
    ELSE IF 0 <= m - (k - 1) /\ m - (k - 1) < Len(x)
         THEN DAdd(FullConvolution(x, h, m, k - 1), DMul(x[m - (k - 1) + 1], h[k]))
         ELSE FullConvolution(x, h, m, k - 1)

\* np.convolve(x, h, mode='same') of integer arrays, without any rounding
ConvolveSame(x, h) ==
    [n \in 1..LongerLen(x, h) |->
        FullConvolution(x, h, (n - 1) + ((ShorterLen(x, h) - 1) \div 2), Len(h))]

\* C22: for every signal length and tap count, output sample n of the
\* ADC-chained variant is sample n of the centered ('same'-mode) convolution
\* of scaled_input with the coefficients, divided by
\* 2^(coeff_frac_bits + adc_bits - 1).
C22_CenteredAlignment ==
    AdcFirReturned =>
        \A n \in 1..Len(args.signal) :
            ret.final_output[n]
              = FDiv(Fl(ConvolveSame(AdcFirScaledInput, args.fixed_point_coeffs)[n]),
                     Fl(DPow2(args.coeff_frac_bits + args.adc_bits - 1)))

\* C23: the ADC stage of the variant is the quantizer: the bias-removed
\* values fed to the FIR stage are what simulate_8bit_adc returns, without
\* noise, for the same signal and configuration, and the two clipping counts
\* are equal.
C23_AdcStageIsQuantizer ==
    AdcFirReturned =>
        /\ AdcFirDcRemoved
             = Simulate8BitAdc(args.signal, args.adc_min, args.adc_max,
                               args.dc_bias, args.adc_bits).digitized_signal
        /\ ret.processing_info.clipping_samples
             = Simulate8BitAdc(args.signal, args.adc_min, args.adc_max,
                               args.dc_bias, args.adc_bits).adc_info.clipped_samples

(***************************************************************************)
(* Claims about simulate_adc_dac_with_dc_removal, checked under SpecChain. *)
(***************************************************************************)
ChainReturned == pc = "chain_done"

C25_DacStage ==
    ChainReturned =>
        /\ \A n \in 1..Len(ret.dac_output) :
              /\ DIsInt(ret.quantized_dac_levels[n])
              /\ DLe(DZero, ret.quantized_dac_levels[n])
              /\ DLe(ret.quantized_dac_levels[n], DSub(DPow2(args.dac_bits), DInt(1)))
              /\ DLe(args.dac_range[1], ret.dac_output[n])
              /\ DLe(ret.dac_output[n], args.dac_range[2])
              /\ DLe(DMul(DScale(DSub(DPow2(args.dac_bits), DInt(1)), 1),
                          DAbs(DSub(ret.dac_output[n],
                                    Clip(ret.dc_removed[n], args.dac_range[1],
                                         args.dac_range[2])))),
                     DSub(args.dac_range[2], args.dac_range[1]))
        /\ ret.dac_info.clipped_samples
             = Cardinality({n \in 1..Len(ret.dc_removed) :
                               \/ DLt(ret.dc_removed[n], args.dac_range[1])
                               \/ DLt(args.dac_range[2], ret.dc_removed[n])})

(***************************************************************************)
(* More claims about simulate_8bit_adc, checked under SpecAdc.             *)
(***************************************************************************)
\* the levels that occur in the quantized signal
LevelsUsed == {ret.quantized_levels[i] : i \in 1..Len(ret.quantized_levels)}

\* C26: the utilization reported is the number of distinct quantization
\* levels that occur in the quantized signal divided by the number of levels
\* 2^bits.
C26_UtilizationCountsLevels ==
    AdcReturned =>
        DScale(ret.adc_info.utilization, args.bits) = DInt(Cardinality(LevelsUsed))

(***************************************************************************)
(* Claims about the three functions on the empty sequence, checked under   *)
(* SpecShort, and about the arrays float_to_fixed_point shares with its    *)
(* caller, checked under SpecConvWrite.                                    *)
(***************************************************************************)
\* the call of float_to_fixed_point, apply_fixed_point_filter or
\* simulate_8bit_adc has ended, and its input sequence was empty
EndedOnEmpty(input) == input \in DOMAIN args /\ pc # "conv" /\ pc # "fir" /\ pc # "adc" /\ Len(args[input]) = 0

\* C27: on a sequence of length 0, float_to_fixed_point, simulate_8bit_adc
\* and apply_fixed_point_filter each return an empty output sequence with a
\* report; none of them raises.
C27_EmptyInputReturns ==
    /\ (EndedOnEmpty("coeffs") /\ ~("signal" \in DOMAIN args))
          => pc = "done" /\ ret.fixed_point_coeffs = <<>>
    /\ (EndedOnEmpty("signal") /\ "fixed_point_coeffs" \in DOMAIN args)
          => pc = "done" /\ ret.filtered_signal = <<>>
    /\ (EndedOnEmpty("signal") /\ "adc_min" \in DOMAIN args)
          => pc = "done" /\ ret.digitized_signal = <<>>

\* C28: what float_to_fixed_point returns holds no reference into the
\* caller's data: the call leaves the input array as it was, and a later
\* store into that array changes no field of the report and no element of
\* the fixed-point sequence.
C28_NoSharedArrays ==
    [][/\ pc = "conv" => args'.coeffs = args.coeffs
       /\ pc = "done" => ret' = ret]_vars

(***************************************************************************)
(* The fixed-point filter against the float64 reference, checked under     *)
(* SpecGrid.                                                               *)
(***************************************************************************)
\* the causal reference has run on the signal of a returned call
GridCompared == pc = "float_done" /\ args2.mode = "causal"

\* every sample is on the grid, no product wraps, no sum leaves the
\* accumulator
GridExact ==
    /\ args.input_scaling = DInt(1)
    /\ args.output_shift = 15
    /\ \A n \in 1..Len(args.signal) :
          /\ OnInputGrid(args.signal[n])
          /\ Accumulate(FirScaledInput, args.fixed_point_coeffs, n,
                        Len(args.fixed_point_coeffs))
               = RawTapSum(FirScaledInput, args.fixed_point_coeffs, n - 1,
                           Len(args.fixed_point_coeffs))
          /\ ~OutOfAccumulator(RawTapSum(FirScaledInput, args.fixed_point_coeffs,
                                         n - 1, Len(args.fixed_point_coeffs)),
                               args.accumulator_bits)

\* C29: with input_scaling 1, output_shift 15, Q1.15 coefficients, samples
\* that are integer multiples of 2^-15, no wrapped product and no accumulator
\* overflow, output[n] = floor(y[n] * 2^15) / 2^15 for the output y of the
\* causal float64 filter with the reconstructed coefficients, and
\* 0 <= y[n] - output[n] < 2^-15.
C29_ExactOnGrid ==
    (GridCompared /\ GridExact) =>
        \A n \in 1..Len(args.signal) :
            /\ ret.filtered_signal[n]
                 = DScale(DFloor(DScale(ret2.filtered[n], 15)), -15)
            /\ DLe(DZero, DSub(ret2.filtered[n], ret.filtered_signal[n]))
            /\ DLt(DSub(ret2.filtered[n], ret.filtered_signal[n]), DPow2(-15))

\* the reference gives a negative sample that is not a multiple of 2^-15:
\* the floor lies below it
C29_Witness ==
    /\ GridCompared
    /\ GridExact
    /\ \E n \in 1..Len(args.signal) :
          /\ ret2.filtered[n].neg
          /\ ret.filtered_signal[n] # ret2.filtered[n]

\* sample i plus dc_bias, as a real number, lies inside adc_range
BiasedInside(i) ==
    /\ DLe(args.adc_min, DAdd(args.signal[i], args.dc_bias))
    /\ DLe(DAdd(args.signal[i], args.dc_bias), args.adc_max)

\* signal[i] - output[i] and (adc_max - adc_min) / 2^bits, as real numbers
AdcError(i) == DSub(args.signal[i], ret.digitized_signal[i])

ExactLsb == DScale(DSub(args.adc_max, args.adc_min), -args.bits)

\* C30: for every sample whose biased value lies in [adc_min, adc_max],
\* 0 <= signal[i] - output[i] <= lsb with lsb = (adc_max - adc_min) / 2^bits,
\* the error being lsb only when the biased value is adc_max; and the
\* quantizer is monotone: signal[i] <= signal[j] implies
\* output[i] <= output[j].
C30_ErrorBound ==
    AdcReturned =>
        /\ \A i \in 1..Len(args.signal) :
              BiasedInside(i) =>
                  /\ DLe(DZero, AdcError(i))
                  /\ DLe(AdcError(i), ExactLsb)
                  /\ AdcError(i) = ExactLsb
                        => DAdd(args.signal[i], args.dc_bias) = args.adc_max
        /\ \A i, j \in 1..Len(args.signal) :
              DLe(args.signal[i], args.signal[j])
                  => DLe(ret.digitized_signal[i], ret.digitized_signal[j])

=============================================================================
